---- MODULE Spec2Model ----
(***************************************************************************)
(* Model of the modellink-api tool adapters (src/tools/*.py).              *)
(*                                                                         *)
(* One behaviour is one invocation of one tool: _invoke extracts the       *)
(* parameters, builds and sends one HTTP request, and turns the response   *)
(* into the messages it yields to the host.  The three streaming tools     *)
(* (chat, completions, responses) consume the response body line by line.  *)
(*                                                                         *)
(* Text is a sequence of characters, a raw body line is a sequence of      *)
(* tokens (BOM, SP, a prefix, a payload name), and json.loads is the       *)
(* table JsonLoads from payload names to JSON values.                      *)
(***************************************************************************)
EXTENDS Integers, Sequences, FiniteSets, TLC

VARIABLES
    tool,             \* the tool whose _invoke runs
    params,           \* tool_parameters
    pc,               \* "start" | "awaiting" | "streaming" | "emitting" | "done"
    requests,         \* the HTTP requests sent so far (bodies), in order
    response,         \* the HTTP response: status, text, lines (SSE body), json
    pos,              \* number of body lines taken from response.iter_lines()
    accumulated_text, \* aggregator locals (openai_chat.py:20-24,
    finish_reason,    \*   openai_responses.py:114-119)
    model_id,
    completion_id,    \* response_id in the responses tool
    created_ts,
    error_info,
    images,           \* banana_gen: images extracted from the response
    emitted,          \* messages yielded to the host, in order
    failures,         \* every exception raised so far: <<where, message, handler>>
    propagated        \* TRUE iff an exception left _invoke

vars == <<tool, params, pc, requests, response, pos, accumulated_text,
          finish_reason, model_id, completion_id, created_ts, error_info,
          images, emitted, failures, propagated>>

aggVars == <<accumulated_text, finish_reason, model_id, completion_id,
             created_ts, error_info>>

----------------------------------------------------------------------------
(* Bounds of the model *)

MaxLines == 3     \* lines in a streamed response body
MaxImages == 2    \* content parts in a candidate of an image response
MaxMsgs == 2      \* messages in the caller's messages parameter
MaxUrl == 3       \* pieces of an image or file URL

----------------------------------------------------------------------------
(* Python values *)

Null == "null"           \* None / JSON null / absent key (dict.get default)
EmptyStr == ""
Zero == "0"

\* bool(v) of a scalar: None, '' and 0 are falsy
Truthy(v) == v \notin {Null, EmptyStr, Zero}

\* the `new or old` idiom of openai_chat.py:62-64,69; LatchKeep (first value wins)
\* and LatchOverwrite (plain assignment) are what the code does not do
LatchKeep(new, old) == IF Truthy(old) THEN old ELSE new
LatchOverwrite(new, old) == new
Latch(new, old) == IF Truthy(new) THEN new ELSE old

\* accumulated_text += piece (AccumulateFront: piece + accumulated_text,
\* AccumulateReplace: accumulated_text = piece, not the code)
AccumulateFront(acc, piece) == piece \o acc
AccumulateReplace(acc, piece) == piece
Accumulate(acc, piece) == acc \o piece

----------------------------------------------------------------------------
(* Failures.  str(e) of an exception is a sequence of message parts. *)

NoExc == <<>>
AttrErrGet == <<"object has no attribute 'get'">>
TypeErrConcat == <<"can only concatenate str to str">>
TypeErrIter == <<"object is not iterable">>

\* f'API 请求失败: {response.status_code} - {error_text}'
ApiFailedMsg(status, text) == <<"API request failed: ", ToString(status), " - ", text>>

\* requests.Response.ok: raise_for_status() raises only for 400 <= status < 600
ResponseOk(status) == ~(400 =< status /\ status < 600)

----------------------------------------------------------------------------
(* Body lines.  A raw line is a sequence of tokens; BOM is U+FEFF, SP is    *)
(* white space; every other token is text without white space.             *)

BOM == "BOM"
SP == "SP"
DataPrefix == "data:"
EventPrefix == "event:"
DoneSentinel == "[DONE]"

RECURSIVE LStrip(_, _)
LStrip(s, tok) == IF s # <<>> /\ Head(s) = tok THEN LStrip(Tail(s), tok) ELSE s

RECURSIVE RStrip(_, _)
RStrip(s, tok) ==
    IF s # <<>> /\ s[Len(s)] = tok THEN RStrip(SubSeq(s, 1, Len(s) - 1), tok) ELSE s

\* str.strip()
Strip(s) == RStrip(LStrip(s, SP), SP)

\* raw_line.decode(charset, errors='replace').lstrip('U+FEFF').strip()
DecodeLine(raw) == Strip(LStrip(raw, BOM))

StartsWith(line, prefix) == line # <<>> /\ Head(line) = prefix

\* payload = line[len('data:'):].strip(); a payload is one token, or blank
PayloadOf(line) ==
    LET rest == Strip(Tail(line)) IN IF rest = <<>> THEN EmptyStr ELSE Head(rest)

----------------------------------------------------------------------------
(* JSON values carried by data lines *)

Str(t) == [kind |-> "str", text |-> t]              \* a JSON string
NonStr(repr) == [kind |-> "nonstr", text |-> repr]  \* a truthy number/list; text is str(v)
Absent == [kind |-> "absent", text |-> <<>>]        \* key absent or null

TruthyVal(v) == v.kind = "nonstr" \/ (v.kind = "str" /\ v.text # <<>>)

\* chat.completion.chunk: delta / message objects of a choice
Obj(content) == [kind |-> "dict", content |-> content]
NoObj == [kind |-> "absent", content |-> Absent]
NonDict == [kind |-> "nondict", content |-> Absent]   \* a truthy non-object value

Choice(fr, delta, message) ==
    [isdict |-> TRUE, finish_reason |-> fr, delta |-> delta, message |-> message]
BadChoice == [isdict |-> FALSE, finish_reason |-> Null, delta |-> NoObj, message |-> NoObj]

Chunk(m, i, c, choices) == [model |-> m, id |-> i, created |-> c, choices |-> choices]

FragA == <<"H", "e">>
FragB == <<"l", "l", "o">>
FragM == <<"M">>

ChatPayloads ==
    [ c_a   |-> Chunk("m1", "id1", "1001", <<Choice(Null, Obj(Str(FragA)), NoObj)>>),
      c_b   |-> Chunk("m2", Null, Null, <<Choice("stop", Obj(Str(FragB)), NoObj)>>),
      c_len |-> Chunk(Null, "id2", "1002", << Choice("length", Obj(Absent), NoObj),
                                              Choice("stop", Obj(Str(FragM)), NoObj) >>),
      c_nil |-> Chunk(Null, EmptyStr, Zero, <<>>),
      c_msg |-> Chunk(Null, Null, Null, <<Choice(Null, NoObj, Obj(Str(FragM)))>>),
      c_nd  |-> Chunk(Null, Null, Null, <<Choice(Null, NonDict, Obj(Str(FragM)))>>),
      c_c0  |-> Chunk(Null, Null, Null, <<BadChoice>>),
      c_int |-> Chunk(Null, Null, Null, <<Choice(Null, Obj(NonStr(<<"5">>)), NoObj)>>) ]

NoChunk == Chunk(Null, Null, Null, <<>>)

\* json.loads(payload) of the chat tools: an object, another JSON value, or a failure
ChatJsonLoads(payload) ==
    IF payload \in DOMAIN ChatPayloads
        THEN [ok |-> TRUE, isdict |-> TRUE, obj |-> ChatPayloads[payload]]
    ELSE IF payload \in {"5", "null"}
        THEN [ok |-> TRUE, isdict |-> FALSE, obj |-> NoChunk]
    ELSE [ok |-> FALSE, isdict |-> FALSE, obj |-> NoChunk]

----------------------------------------------------------------------------
(* The aggregator's locals as one value, and the outcome of one loop body  *)

NoError == [kind |-> "absent", code |-> Null, message |-> Null]

AggInit ==
    [accumulated_text |-> <<>>, finish_reason |-> Null, model_id |-> Null,
     completion_id |-> Null, created_ts |-> Null, error_info |-> NoError]

Continue(st) == [ctl |-> "continue", exc |-> NoExc, st |-> st]
Break(st) == [ctl |-> "break", exc |-> NoExc, st |-> st]
Raise(st, msg) == [ctl |-> "raise", exc |-> msg, st |-> st]

\* what the loop does with a payload that json.loads rejects
\* (openai_chat.py:59-60, openai_responses.py:159-161): continue
JsonDecodeErr == <<"Expecting value">>
\* OnParseFailureBreak: a loop that stops at the bad line, not the code
OnParseFailureBreak(st) == Break(st)
OnParseFailure(st) == [ctl |-> "continue", exc |-> JsonDecodeErr, st |-> st]

\* what the loop does with an empty line and with a line that does not start
\* with 'data:' (openai_chat.py:49-52, openai_responses.py:146-152): continue
\* OnSkipBreak: a loop that stops at such a line, not the code
OnSkipBreak(st) == Break(st)
OnSkip(st) == Continue(st)

\* what the loop does with the [DONE] payload
\* (openai_chat.py:55-56, openai_responses.py:155-156): break
\* OnDoneContinue: a loop that reads on, not the code
OnDoneContinue(st) == Continue(st)
OnDone(st) == Break(st)

----------------------------------------------------------------------------
(* openai_chat.py:62-80 (the same code is openai_completions.py:60-78)     *)

\* lines 70-80: the text of the first choice
ChatPiece(c0) ==
    IF c0.delta.kind \in {"absent", "dict"}      \* delta = c0.get('delta') or {}
        THEN c0.delta.content
    ELSE IF c0.message.kind \in {"absent", "dict"}
        THEN c0.message.content
    ELSE Absent

ChatChunk(st, chunk) ==
    LET st1 == [st EXCEPT !.model_id = Latch(chunk.model, @),
                          !.completion_id = Latch(chunk.id, @),
                          !.created_ts = Latch(chunk.created, @)]
    IN  IF chunk.choices = <<>> THEN Continue(st1)
        ELSE LET c0 == chunk.choices[1] IN
             IF ~c0.isdict THEN Raise(st1, AttrErrGet)
             ELSE LET st2 == [st1 EXCEPT !.finish_reason = Latch(c0.finish_reason, @)]
                      piece == ChatPiece(c0)
                  IN  IF ~TruthyVal(piece) THEN Continue(st2)
                      ELSE IF piece.kind # "str" THEN Raise(st2, TypeErrConcat)
                      ELSE Continue([st2 EXCEPT !.accumulated_text =
                                                    Accumulate(@, piece.text)])

\* lines 44-60: one iteration of `for raw_line in response.iter_lines()`
ChatLine(st, raw) ==
    LET line == DecodeLine(raw) IN
    IF line = <<>> THEN OnSkip(st)
    ELSE IF ~StartsWith(line, DataPrefix) THEN OnSkip(st)
    ELSE LET payload == PayloadOf(line) IN
         IF payload = DoneSentinel THEN OnDone(st)
         ELSE LET parsed == ChatJsonLoads(payload) IN
              IF ~parsed.ok THEN OnParseFailure(st)
              ELSE IF ~parsed.isdict THEN Raise(st, AttrErrGet)
              ELSE ChatChunk(st, parsed.obj)

----------------------------------------------------------------------------
(* Responses API events (openai_responses.py:163-212)                      *)

ErrObj(code, message) == [kind |-> "obj", code |-> code, message |-> message]

\* event['response']: kind "absent" when the key is missing or not an object
Resp(m, i, c, err, output) ==
    [kind |-> "dict", model |-> m, id |-> i, created_at |-> c, error |-> err,
     output |-> output]
NoResp ==
    [kind |-> "absent", model |-> Null, id |-> Null, created_at |-> Null,
     error |-> NoError, output |-> <<>>]

Part(type, text) == [type |-> type, text |-> text]
Item(type, content) == [type |-> type, content |-> content]
Event(type, resp, delta) == [type |-> type, response |-> resp, delta |-> delta]

FragC == <<"!">>
FragX == <<"X", "Y">>
FragZ == <<"Z">>

TypeDelta == "response.output_text.delta"
TypeCompleted == "response.completed"
TypeFailed == "response.failed"

\* 'delta' in etype
ContainsDelta(etype) == etype \in {TypeDelta, "response.reasoning_summary_text.delta"}

EventPayloads ==
    [ e_created |-> Event("response.created", Resp("m1", "id1", "1001", NoError, <<>>), Absent),
      e_prog    |-> Event("response.in_progress",
                          Resp("m2", Null, Null, ErrObj("E1", "recorded"), <<>>), Absent),
      e_da      |-> Event(TypeDelta, NoResp, Str(FragA)),
      e_db      |-> Event(TypeDelta, NoResp, Str(FragB)),
      e_od      |-> Event("response.reasoning_summary_text.delta", NoResp, Str(FragC)),
      e_done    |-> Event(TypeCompleted,
                          Resp(Null, "id2", Zero, NoError,
                               << Item("reasoning", <<Part("output_text", FragZ)>>),
                                  Item("message", << Part("output_text", FragX),
                                                     Part("refusal", FragZ),
                                                     Part("output_text", FragC) >>) >>),
                          Absent),
      e_fail    |-> Event(TypeFailed,
                          Resp(Null, Null, Null, ErrObj("rate_limit", "slow down"), <<>>),
                          Absent),
      e_fail0   |-> Event(TypeFailed, NoResp, Absent) ]

NoEvent == Event(EmptyStr, NoResp, Absent)

ResponsesJsonLoads(payload) ==
    IF payload \in DOMAIN EventPayloads
        THEN [ok |-> TRUE, isdict |-> TRUE, obj |-> EventPayloads[payload]]
    ELSE IF payload \in {"5", "null"}
        THEN [ok |-> TRUE, isdict |-> FALSE, obj |-> NoEvent]
    ELSE [ok |-> FALSE, isdict |-> FALSE, obj |-> NoEvent]

\* lines 190-196: the output_text parts of the message items, in order
RECURSIVE PartsText(_)
PartsText(parts) ==
    IF parts = <<>> THEN <<>>
    ELSE (IF Head(parts).type = "output_text" THEN Head(parts).text ELSE <<>>)
         \o PartsText(Tail(parts))

RECURSIVE OutputText(_)
OutputText(output) ==
    IF output = <<>> THEN <<>>
    ELSE (IF Head(output).type = "message" THEN PartsText(Head(output).content) ELSE <<>>)
         \o OutputText(Tail(output))

\* lines 202-205: f'响应失败: {error_code} - {error_message}'
ResponseFailedMsg(err) ==
    << "response failed: ",
       IF err.kind = "obj" /\ err.code # Null THEN err.code ELSE "unknown_error",
       " - ",
       IF err.kind = "obj" /\ err.message # Null THEN err.message
       ELSE "The model failed to generate a response." >>

\* lines 198-205: the response.failed event raises
OnFailedEventIgnore(st, event) == Continue(st)
OnFailedEvent(st, event) ==
    Raise([st EXCEPT !.error_info = event.response.error],
          ResponseFailedMsg(event.response.error))

\* lines 176-181 and 207-212: accumulated_text += str(delta)
\* OnDeltaClearsFinish: a delta that also clears the finish reason, not the code
OnDeltaClearsFinish(st, event) ==
    Continue([st EXCEPT !.accumulated_text = Accumulate(@, event.delta.text),
                        !.finish_reason = Null])
OnDelta(st, event) ==
    IF TruthyVal(event.delta)
        THEN Continue([st EXCEPT !.accumulated_text = Accumulate(@, event.delta.text)])
    ELSE Continue(st)

\* lines 183-196: response.completed
\* OnCompletedAlways: a handler that adds the output text in any case, not the code
OnCompletedAlways(st, event) ==
    Continue([st EXCEPT !.finish_reason = "stop",
                        !.accumulated_text =
                            Accumulate(@, OutputText(event.response.output))])
OnCompleted(st, event) ==
    LET st1 == [st EXCEPT !.finish_reason = "stop"] IN
    IF st1.accumulated_text = <<>>
        THEN Continue([st1 EXCEPT !.accumulated_text =
                                      Accumulate(@, OutputText(event.response.output))])
    ELSE Continue(st1)

\* lines 163-212: one parsed event
ResponsesEvent(st, event) ==
    LET resp == event.response
        st1 == IF resp.kind = "dict"
                   THEN [st EXCEPT !.model_id = Latch(resp.model, @),
                                   !.completion_id = Latch(resp.id, @),
                                   !.created_ts = Latch(resp.created_at, @),
                                   !.error_info = IF resp.error.kind = "obj"
                                                      THEN resp.error ELSE @]
               ELSE st
        etype == event.type
    IN  IF etype = TypeDelta THEN OnDelta(st1, event)
        ELSE IF etype = TypeCompleted THEN OnCompleted(st1, event)
        ELSE IF etype = TypeFailed THEN OnFailedEvent(st1, event)
        ELSE IF Truthy(etype) /\ ContainsDelta(etype) THEN OnDelta(st1, event)
        ELSE Continue(st1)

\* lines 139-161: one iteration of `for raw_line in response.iter_lines()`
ResponsesLine(st, raw) ==
    LET line == DecodeLine(raw) IN
    IF line = <<>> THEN OnSkip(st)
    ELSE IF StartsWith(line, EventPrefix) THEN OnSkip(st)
    ELSE IF ~StartsWith(line, DataPrefix) THEN OnSkip(st)
    ELSE LET payload == PayloadOf(line) IN
         IF payload = DoneSentinel THEN OnDone(st)
         ELSE LET parsed == ResponsesJsonLoads(payload) IN
              IF ~parsed.ok THEN OnParseFailure(st)
              ELSE IF ~parsed.isdict THEN Raise(st, AttrErrGet)
              ELSE ResponsesEvent(st, parsed.obj)

\* the aggregator's line handler of each streaming tool
StreamingTools == {"chat", "completions", "responses"}

LineStep(t, st, raw) ==
    IF t = "responses" THEN ResponsesLine(st, raw) ELSE ChatLine(st, raw)

----------------------------------------------------------------------------
(* Messages yielded to the host *)

Json(env) == [kind |-> "json", body |-> env]
Blob(name, mime) == [kind |-> "blob", file_name |-> name, mime_type |-> mime]

\* openai_chat.py:82-98, openai_responses.py:217-232
StreamResult(st) ==
    [success |-> TRUE,
     message |-> <<"chat succeeded">>,
     data |-> [content |-> st.accumulated_text, role |-> "assistant",
               finishReason |-> st.finish_reason],
     metadata |-> [model |-> st.model_id, id |-> st.completion_id,
                   created |-> st.created_ts, finishReason |-> st.finish_reason,
                   serviceTier |-> Null]]

\* the `except Exception as e` of _invoke (openai_chat.py:220-226 and the like):
\* {'success': False, 'message': str(e) or <default>, 'error': str(e)}
FailureEnvelope(msg, default) ==
    [success |-> FALSE, message |-> IF msg = <<>> THEN default ELSE msg, error |-> msg]

DefaultFailMsg(t) ==
    CASE t \in StreamingTools -> <<"chat failed">>
      [] t \in {"sora", "klingus_i2v"} -> <<"video generation failed">>
      [] t \in {"sora_query", "klingus_query", "suno_fetch"} -> <<"query failed">>
      [] OTHER -> <<"task submission failed">>

\* banana_gen.py:206-211 has no 'message' key
TopLevelEnvelope(t, msg) ==
    IF t = "banana" THEN [success |-> FALSE, error |-> msg]
    ELSE FailureEnvelope(msg, DefaultFailMsg(t))

----------------------------------------------------------------------------
(* Parameter extraction and request building: the code of _invoke before   *)
(* the HTTP call.  Prepared(req) / NotPrepared(msg) is its outcome.        *)

Prepared(req) == [ok |-> TRUE, exc |-> NoExc, request |-> req]
NoRequest == [url |-> EmptyStr]
NotPrepared(msg) == [ok |-> FALSE, exc |-> msg, request |-> NoRequest]

\* message content of the chat tools: kind "absent" (None or empty), "str",
\* "list", "dict" (text / alt are its 'text' and 'content' fields), "other"
Content(kind, text, alt) == [kind |-> kind, text |-> text, alt |-> alt]
Msg(role, content) == [isdict |-> TRUE, role |-> role, content |-> content]
NonDictMsg == [isdict |-> FALSE, role |-> Null, content |-> Content("absent", <<>>, <<>>)]

\* openai_chat.py:134-158
\* FormatContentAsIs: a builder that sends every content as it came, not the code
FormatContentAsIs(c) == c
FormatContent(c) ==
    CASE c.kind \in {"str", "list"} -> c
      [] c.kind = "dict" ->
            LET text == IF c.text # <<>> THEN c.text ELSE c.alt IN
            IF text # <<>> THEN Content("parts", text, <<>>)
            ELSE Content("str", <<"json.dumps(content)">>, <<>>)
      [] OTHER -> Content("str", c.text, <<>>)

\* openai_chat.py:131-163: [ok, conv]; not ok when msg.get raises
RECURSIVE BuildConversation(_)
BuildConversation(messages) ==
    IF messages = <<>> THEN [ok |-> TRUE, conv |-> <<>>]
    ELSE LET msg == Head(messages)
             rest == BuildConversation(Tail(messages))
         IN  IF ~msg.isdict \/ ~rest.ok THEN [ok |-> FALSE, conv |-> <<>>]
             ELSE IF msg.content.kind = "absent" THEN rest
             ELSE [ok |-> TRUE,
                   conv |-> << [role |-> IF msg.role = Null THEN "user" ELSE msg.role,
                                content |-> FormatContent(msg.content)] >> \o rest.conv]

NeedInputMsg == <<"messages or prompt required">>

\* a key the caller leaves out of tool_parameters
Omitted == "omitted"
\* tool_parameters.get(key, default); default is None for a plain get(key)
Param(p, key, default) == IF p[key] = Omitted THEN default ELSE p[key]

\* the sentinel of an unset parameter (sora_video.py:35-38,
\* klingus_image2video.py:38-41, openai_chat.py:111-123)
Variable == "variable"
process_param(value) == IF value = Variable THEN Null ELSE value

\* openai_responses.py:270-274 (suno_submit_music.py:24-25 is the same function)
get_param(p, key) ==
    LET val == Param(p, key, Null) IN
    IF val \in {Null, Variable, EmptyStr} THEN Null ELSE val

PyTrue == "True"
PyFalse == "False"
NoFields == [x \in {} |-> Null]
\* if cond: request_body[key] = value
Field(cond, key, value) == IF cond THEN (key :> value) ELSE NoFields

\* openai_chat.py:107-123, 173-206: model is read with a default and sent as
\* is; the sampling parameters go through the sentinel test
ChatBody(p, messages) ==
    LET temperature == process_param(Param(p, "temperature", Null))
        maxCompletionTokens == process_param(Param(p, "maxCompletionTokens", Null))
    IN  [url |-> "/v1/chat/completions", model |-> Param(p, "model", "gpt-4o"),
         messages |-> messages]
        @@ Field(temperature # Null, "temperature", temperature)
        @@ Field(maxCompletionTokens # Null, "max_completion_tokens", maxCompletionTokens)
        @@ [stream |-> PyTrue]

\* openai_chat.py:101-215 (openai_completions.py:101-198)
ChatPrepare(p) ==
    IF p.messages # <<>>
        THEN LET b == BuildConversation(p.messages) IN
             IF ~b.ok THEN NotPrepared(AttrErrGet)
             ELSE Prepared(ChatBody(p, b.conv))
    ELSE IF Truthy(p.prompt)
        THEN Prepared(ChatBody(p, << [role |-> "user",
                                      content |-> Content("str", <<p.prompt>>, <<>>)] >>))
    ELSE NotPrepared(NeedInputMsg)

\* openai_responses.py:261-263
\* ApiKeyAnyString: a test that lets a blank key through, not the code
ApiKeyAnyString(k) == k.kind = "str"
ApiKeyValid(k) == k.kind = "str" /\ Strip(k.text) # <<>>

\* a URL is the sequence of its pieces: whitespace (SP), a backtick, a
\* backslash, an absolute https URL with a host, a URL of another scheme
BackTick == "backtick"
BackSlash == "\\"
HttpsUrl == "https://h/p"
FtpUrl == "ftp://h/p"

\* openai_responses.py:17-29: [ok, url]; not ok when ValueError is raised.
\* urlparse finds scheme and host when the text starts with the absolute URL
sanitize_url(url) ==
    LET stripped == Strip(url)
        unwrapped == IF stripped # <<>> /\ Head(stripped) = BackTick
                         /\ stripped[Len(stripped)] = BackTick
                        THEN Strip(SubSeq(stripped, 2, Len(stripped) - 1))
                     ELSE stripped
        cleaned == IF unwrapped # <<>> /\ unwrapped[Len(unwrapped)] = BackSlash
                      THEN SubSeq(unwrapped, 1, Len(unwrapped) - 1)
                   ELSE unwrapped
    IN  IF cleaned # <<>> /\ Head(cleaned) = HttpsUrl
            THEN [ok |-> TRUE, url |-> cleaned]
        ELSE [ok |-> FALSE, url |-> <<>>]

\* openai_responses.py:31-75 for a string content and for a content that is one
\* input_image item (kind "image") or one input_file item with a file_url
\* (kind "file"); text holds the URL
NormalizeMessageContent(c) ==
    IF c.kind \in {"image", "file"}
        THEN [c EXCEPT !.text = sanitize_url(c.text).url]
    ELSE c

InvalidUrlMsg == <<"invalid URL">>

\* _sanitize_url raises for some message
RECURSIVE InputFails(_)
InputFails(messages) ==
    IF messages = <<>> THEN FALSE
    ELSE \/ /\ Head(messages).content.kind \in {"image", "file"}
            /\ ~sanitize_url(Head(messages).content.text).ok
         \/ InputFails(Tail(messages))

\* openai_responses.py:77-97
RECURSIVE InputMessages(_)
InputMessages(messages) ==
    IF messages = <<>> THEN <<>>
    ELSE LET msg == Head(messages) IN
         (IF msg.content.kind = "absent" THEN <<>>
          ELSE << [role |-> IF msg.role = Null THEN "user" ELSE msg.role,
                   content |-> NormalizeMessageContent(msg.content)] >>)
         \o InputMessages(Tail(messages))

BuildInput(messages, prompt) ==
    IF Truthy(prompt) /\ messages = <<>> THEN [kind |-> "str", text |-> prompt, list |-> <<>>]
    ELSE LET im == InputMessages(messages) IN
         IF im # <<>> THEN [kind |-> "list", text |-> EmptyStr, list |-> im]
         ELSE [kind |-> "str", text |-> IF Truthy(prompt) THEN prompt ELSE EmptyStr,
               list |-> <<>>]

\* openai_responses.py:259-366
ResponsesPrepare(p) ==
    IF ~ApiKeyValid(p.apiKey) THEN NotPrepared(<<"missing a valid API Key">>)
    ELSE IF InputFails(p.messages) THEN NotPrepared(InvalidUrlMsg)
    ELSE LET instructions == get_param(p, "instructions")
             maxOutputTokens == get_param(p, "maxOutputTokens")
             max_output_tokens == IF Truthy(maxOutputTokens) THEN maxOutputTokens
                                  ELSE get_param(p, "maxCompletionTokens")
         IN  Prepared([url |-> "/v1/responses", model |-> Param(p, "model", "gpt-4o"),
                       input |-> BuildInput(p.messages, p.prompt),
                       stream |-> Param(p, "stream", PyTrue)]
                      @@ Field(instructions # Null, "instructions", instructions)
                      @@ Field(max_output_tokens # Null, "max_output_tokens",
                               max_output_tokens))

\* suno_submit_music.py:17-57
SunoSubmitPrepare(p) ==
    LET prompt == Param(p, "prompt", Null)
        mv == Param(p, "mv", Null)
        title == Param(p, "title", Null)
    IN
    IF ~Truthy(Param(p, "apiKey", Null)) THEN NotPrepared(<<"missing apiKey">>)
    ELSE IF ~Truthy(prompt) \/ ~Truthy(mv) \/ ~Truthy(title)
        THEN NotPrepared(<<"prompt, mv, title are required">>)
    ELSE LET tags == get_param(p, "tags")
             task == get_param(p, "task")
         IN  Prepared([url |-> "/suno/submit/music", prompt |-> prompt, mv |-> mv,
                       title |-> title]
                      @@ Field(tags # Null, "tags", tags)
                      @@ Field(task # Null, "task", task))

\* suno_fetch_music.py:16-27
SunoFetchPrepare(p) ==
    LET task_id == Param(p, "task_id", Null) IN
    IF ~Truthy(task_id) THEN NotPrepared(<<"task_id is required">>)
    ELSE Prepared([url |-> "/suno/fetch/", id |-> task_id])

\* sora_video.py:57-68
SoraSize(model, size) ==
    IF model = "sora-2" /\ Truthy(size) /\ size \notin {"720x1280", "1280x720"}
        THEN "1280x720" ELSE size
SoraSeconds(model, seconds) ==
    IF model = "sora-2" /\ Truthy(seconds) /\ seconds \notin {"10", "15"}
        THEN "10" ELSE seconds

\* sora_video.py:19-103
SoraPrepare(p) ==
    LET model == process_param(Param(p, "model", "sora-2"))
        size == SoraSize(model, process_param(Param(p, "size", Null)))
        seconds == SoraSeconds(model, process_param(Param(p, "seconds", "10")))
        input_reference == process_param(Param(p, "input_reference", Null))
        watermark == process_param(Param(p, "watermark", Null))
    IN  Prepared([url |-> "/v1/videos", model |-> model,
                  prompt |-> process_param(p.prompt), seconds |-> seconds]
                 @@ Field(Truthy(input_reference), "input_reference", input_reference)
                 @@ Field(Truthy(size), "size", size)
                 @@ Field(watermark # Null, "watermark", watermark))

\* sora_video_query.py:19-33
SoraQueryPrepare(p) == Prepared([url |-> "/v1/videos/", id |-> p.id])

\* klingus_image2video.py:19-89
KlingusI2VPrepare(p) ==
    LET negative_prompt == process_param(Param(p, "negative_prompt", Null))
        cfg_scale == process_param(Param(p, "cfg_scale", Null))
    IN  Prepared([url |-> "/klingus/v1/videos/image2video",
                  model_name |-> process_param(Param(p, "model_name", "kling-v1")),
                  prompt |-> process_param(p.prompt),
                  image |-> process_param(p.image),
                  image_tail |-> process_param(Param(p, "image_tail", Null)),
                  mode |-> process_param(Param(p, "mode", "std")),
                  duration |-> process_param(Param(p, "duration", "5")),
                  enable_audio |-> process_param(Param(p, "enable_audio", PyTrue))]
                 @@ Field(Truthy(negative_prompt), "negative_prompt", negative_prompt)
                 @@ Field(cfg_scale # Null, "cfg_scale", cfg_scale))

\* klingus_text2video_query.py:19-42
KlingusQueryPrepare(p) ==
    Prepared([url |-> "/klingus/v1/videos/text2video/", id |-> process_param(p.task_id)])

----------------------------------------------------------------------------
(* HTTP responses *)

StatusCodes == {200, 304, 429}

\* response.json(): kind "dict" | "nondict" | "notjson"; fields are the top-level
\* scalar keys, data the 'data' key ("absent" | "null" | "dict"), candidates and
\* err the shapes the image tool reads
JsonBody(kind, fields, data, candidates, err) ==
    [kind |-> kind, fields |-> fields, data |-> data, candidates |-> candidates,
     err |-> err]
NotJson == JsonBody("notjson", NoFields, "absent", <<>>, "none")
NonDictJson == JsonBody("nondict", NoFields, "absent", <<>>, "none")

\* result.get(key)
Get(fields, key) == IF key \in DOMAIN fields THEN fields[key] ELSE Null

\* lines: the body lines received so far; complete: the whole body has been received
Response(status, text, lines, json) ==
    [status |-> status, text |-> text, lines |-> lines, json |-> json, complete |-> TRUE]
NoResponse == Response(0, EmptyStr, <<>>, NotJson)

\* requests.post(..., stream=True) returns when the headers have arrived
Streaming(status, text) ==
    [Response(status, text, <<>>, NotJson) EXCEPT !.complete = FALSE]

StatusText(status) ==
    CASE status = 200 -> "event stream"
      [] status = 304 -> EmptyStr
      [] OTHER -> "rate limited"

StatusReason(status) ==
    CASE status = 200 -> "OK"
      [] status = 304 -> "Not Modified"
      [] OTHER -> "Too Many Requests"

ConnectionErr == <<"connection error">>

----------------------------------------------------------------------------
(* Event-stream bodies of the streaming tools *)

DataLine(payload) == <<DataPrefix, SP, payload>>

CommonLines ==
    { <<SP>>,                            \* a blank line
      <<EventPrefix, SP, "message">>,    \* event: message
      <<DataPrefix, DoneSentinel>>,      \* data:[DONE]
      DataLine("{bad"),                  \* not JSON
      DataLine("5") }                    \* JSON, not an object

ChatLines ==
    CommonLines
    \cup { <<BOM, DataPrefix, SP, "c_a", SP>> }
    \cup { DataLine(n) : n \in DOMAIN ChatPayloads \ {"c_a"} }

ResponsesLines ==
    CommonLines
    \cup { <<":", SP, "keep-alive">>, <<BOM, SP, DataPrefix, "e_da">> }
    \cup { DataLine(n) : n \in DOMAIN EventPayloads \ {"e_da"} }

Alphabet(t) == IF t = "responses" THEN ResponsesLines ELSE ChatLines

SeqsUpTo(S, n) == UNION { [1..k -> S] : k \in 0..n }

\* the body of a 200 response is any stream of at most MaxLines lines; other
\* responses carry no stream, or one stray data line
BodyLines(t, status) ==
    IF status = 200 THEN Alphabet(t)
    ELSE { DataLine(IF t = "responses" THEN "e_db" ELSE "c_b") }

MaxBody(status) == IF status = 200 THEN MaxLines ELSE 1

\* a line of the JSON document an upstream returns for a request that did not
\* ask for a stream: the response object with its output text, no SSE framing
JsonDocument == <<"{response with output text}">>

\* the lines the upstream may send for the request req
UpstreamLines(t, status, req) ==
    IF status = 200 /\ req.stream = PyFalse THEN {JsonDocument}
    ELSE BodyLines(t, status)

Bodies(t, status) == SeqsUpTo(BodyLines(t, status), MaxBody(status))

----------------------------------------------------------------------------
(* The image tool (banana_gen.py) *)

TextPart == [kind |-> "text", data |-> "valid", mimeType |-> Null]
Img(data, mime) == [kind |-> "image", data |-> data, mimeType |-> mime]

PartAlphabet ==
    { TextPart, Img("valid", "image/png"), Img("invalid", "image/jpeg"),
      Img("valid", "image/bmp") }

\* lines 42-51
FileExtension(mime) ==
    CASE mime = "image/png" -> "png"
      [] mime \in {"image/jpeg", "image/jpg"} -> "jpg"
      [] mime = "image/gif" -> "gif"
      [] mime = "image/webp" -> "webp"
      [] OTHER -> "png"

\* lines 165-170: the inline images of a candidate's parts, in order
RECURSIVE InlineImages(_)
InlineImages(parts) ==
    IF parts = <<>> THEN <<>>
    ELSE (IF Head(parts).kind = "image"
              THEN << [data |-> Head(parts).data, mimeType |-> Head(parts).mimeType] >>
              ELSE <<>>)
         \o InlineImages(Tail(parts))

\* ExtractImagesAny: the inline images of every candidate, not the code
RECURSIVE ImagesOfAll(_)
ImagesOfAll(candidates) ==
    IF candidates = <<>> THEN <<>>
    ELSE InlineImages(Head(candidates)) \o ImagesOfAll(Tail(candidates))
ExtractImagesAny(json) ==
    IF json.kind = "dict" THEN ImagesOfAll(json.candidates) ELSE <<>>

\* lines 160-170: only candidates[0] is read
ExtractImages(json) ==
    IF json.kind = "dict" /\ json.candidates # <<>>
        THEN InlineImages(json.candidates[1]) ELSE <<>>

\* lines 138-154
BananaErrorMessage(resp) ==
    LET fallback == <<"HTTP ", ToString(resp.status), ": ", StatusReason(resp.status)>>
        e == resp.json.err
    IN  <<"API request failed: ">> \o
        ( CASE resp.json.kind # "dict" -> fallback
            [] e = "error_str" -> <<"error string">>
            [] e = "error_obj_message" -> <<"error.message">>
            [] e = "error_obj" -> <<"json.dumps(error)">>
            [] e = "message" -> <<"message">>
            [] OTHER -> fallback )

ErrShapes == {"error_str", "error_obj_message", "error_obj", "message", "none"}

Suffixes == {"k3x9q2a", "zz00aa1"}
Timestamp == "1700000000"

\* line 186
\* FileNameNoIndex: a name without the position of the image, not the code
FileNameNoIndex(i, suffix, ext) == <<"banana_gen_", Timestamp, "_", suffix, ".", ext>>
FileName(i, suffix, ext) == <<"banana_gen_", Timestamp, "_", ToString(i), "_", suffix, ".", ext>>

NoImagesMsg == <<"no image data in the response">>

\* lines 75-99: the parts of the request; a reference image that fails to
\* download is logged and left out
RECURSIVE RefParts(_)
RefParts(refs) ==
    IF refs = <<>> THEN <<>>
    ELSE (IF Head(refs) = "ok" THEN <<"inlineData">> ELSE <<>>) \o RefParts(Tail(refs))

\* lines 58-122; ratio and size are used as the caller gave them
BananaRequest(p) ==
    LET model == Param(p, "model", Null)
        ratio == Param(p, "ratio", Null)
        size == Param(p, "size", Null)
    IN  [url |-> "/v1beta/models/:generateContent", model |-> model,
         parts |-> (IF Truthy(p.prompt) THEN <<"text">> ELSE <<>>) \o RefParts(p.refs)]
        @@ Field(Truthy(ratio), "aspectRatio", ratio)
        @@ Field(Truthy(size) /\ model = "gemini-3-pro-image-preview", "imageSize", size)

BananaJsonBodies(status) ==
    IF ResponseOk(status)
        THEN { NotJson, NonDictJson }
             \cup { JsonBody("dict", NoFields, "absent", c, "none") :
                      c \in {<<>>}
                         \cup { <<ps>> : ps \in SeqsUpTo(PartAlphabet, MaxImages) }
                         \cup { <<ps, <<Img("valid", "image/png")>> >> :
                                  ps \in SeqsUpTo(PartAlphabet, MaxImages) } }
    ELSE { NotJson } \cup { JsonBody("dict", NoFields, "absent", <<>>, e) : e \in ErrShapes }

----------------------------------------------------------------------------
(* JSON responses of the video and music tools *)

TaskFields == [id |-> "task_1", model |-> "sora-2", status |-> "queued"]

JsonBodies ==
    { NotJson, NonDictJson,
      JsonBody("dict", TaskFields, "dict", <<>>, "none"),
      JsonBody("dict", NoFields, "null", <<>>, "none"),
      JsonBody("dict", NoFields, "absent", <<>>, "none") }

JsonTools == {"sora", "sora_query", "klingus_i2v", "klingus_query"}
SunoTools == {"suno_submit", "suno_fetch"}

\* the outcome of mapping a 2xx JSON response: the data of the success envelope, or
\* the failure raised (sora_video.py:113-128, sora_video_query.py:44-64,
\* klingus_image2video.py:100-108, klingus_text2video_query.py:57-69)
Mapped(data) == [ok |-> TRUE, exc |-> NoExc, data |-> data]
NotMapped(msg) == [ok |-> FALSE, exc |-> msg, data |-> NoFields]

MapJson(t, resp) ==
    LET j == resp.json IN
    IF j.kind = "notjson"
        THEN NotMapped(IF t = "klingus_query"
                           THEN <<"JSON parse failed: ", "Expecting value", resp.text>>
                           ELSE JsonDecodeErr)
    ELSE IF j.kind = "nondict" THEN NotMapped(AttrErrGet)
    ELSE IF t = "sora"
        THEN Mapped([task_id |-> Get(j.fields, "id"), model |-> Get(j.fields, "model"),
                     status |-> Get(j.fields, "status"),
                     created |-> Get(j.fields, "created"),
                     expires_at |-> Get(j.fields, "expires_at"),
                     task_type |-> Get(j.fields, "task_type")])
    ELSE IF t = "sora_query"
        THEN Mapped([id |-> Get(j.fields, "id"), model |-> Get(j.fields, "model"),
                     status |-> Get(j.fields, "status"),
                     progress |-> Get(j.fields, "progress"),
                     seconds |-> Get(j.fields, "seconds"),
                     size |-> Get(j.fields, "size"),
                     created_at |-> Get(j.fields, "created_at"),
                     completed_at |-> Get(j.fields, "completed_at"),
                     url |-> Get(j.fields, "url"),
                     video_url |-> Get(j.fields, "video_url"),
                     result_url |-> Get(j.fields, "result_url")])
    ELSE IF j.data = "null" THEN NotMapped(AttrErrGet)   \* result.get("data", {}).get(..)
    ELSE Mapped([data |-> j.data])

SuccessMsg(t) ==
    CASE t = "sora" -> <<"video task submitted">>
      [] t = "sora_query" -> <<"video query succeeded">>
      [] t = "klingus_i2v" -> <<"video task submitted">>
      [] t = "klingus_query" -> <<"task query succeeded">>
      [] t = "suno_submit" -> <<"task submitted">>
      [] OTHER -> <<"query succeeded">>

SuccessEnvelope(t, data) == [success |-> TRUE, message |-> SuccessMsg(t), data |-> data]

\* suno_submit_music.py:73-78, suno_fetch_music.py:37-42: a body that is not
\* JSON becomes {'raw': resp.text}
SunoData(resp) ==
    IF resp.json.kind = "notjson" THEN [raw |-> resp.text] ELSE [json |-> resp.json.kind]

----------------------------------------------------------------------------
(* Invocations *)

Tools == StreamingTools \cup JsonTools \cup SunoTools \cup {"banana"}

Scalars == {Null, EmptyStr, "v"}

HelloMsg == Msg("user", Content("str", <<"hello">>, <<>>))

\* the messages a caller passes: content of every runtime shape, with and
\* without a role, and an element that is no mapping
MsgAlphabet ==
    { HelloMsg,
      Msg("assistant", Content("list", <<"part">>, <<>>)),
      Msg(Null, Content("dict", <<"t">>, <<"c">>)),
      Msg("user", Content("dict", <<>>, <<"c">>)),
      Msg("system", Content("dict", <<>>, <<>>)),
      Msg("user", Content("other", <<"5">>, <<>>)),
      Msg("user", Content("absent", <<>>, <<>>)),
      NonDictMsg }

\* the tool_parameters the model invokes each tool with
\* the parameters of the invocations whose whole run is explored; the optional
\* parameters are left out
ParamCases(t) ==
    CASE t \in {"chat", "completions"} ->
            { [model |-> "gpt-4o", messages |-> m, prompt |-> q, temperature |-> Omitted,
               maxCompletionTokens |-> Omitted] :
                m \in {<<>>, <<HelloMsg>>, <<HelloMsg, NonDictMsg>>}, q \in {Null, "tell"} }
            \ { [model |-> "gpt-4o", messages |-> <<HelloMsg>>, prompt |-> "tell",
                 temperature |-> Omitted, maxCompletionTokens |-> Omitted] }
      [] t = "responses" ->
            { [apiKey |-> k, model |-> "gpt-4o", messages |-> <<>>, prompt |-> "tell",
               stream |-> PyTrue, instructions |-> Omitted, maxOutputTokens |-> Omitted,
               maxCompletionTokens |-> Omitted] :
                k \in {Absent, Str(<<>>), Str(<<SP>>), NonStr(<<"123">>), Str(<<"sk-1">>)} }
            \cup { [apiKey |-> Str(<<"sk-1">>), model |-> "gpt-4o", messages |-> <<>>,
                    prompt |-> "tell", stream |-> PyFalse, instructions |-> Omitted,
                    maxOutputTokens |-> Omitted, maxCompletionTokens |-> Omitted] }
      [] t = "suno_submit" ->
            [apiKey : Scalars \cup {Omitted}, prompt : Scalars \cup {Omitted},
             mv : Scalars \cup {Omitted}, title : Scalars \cup {Omitted},
             tags : {Omitted}, task : {Omitted}]
      [] t = "suno_fetch" -> [apiKey : {Null, "v"}, task_id : Scalars \cup {Omitted}]
      [] t = "sora" ->
            [model : {"sora-2", "sora-2-pro", Variable}, prompt : {"p"},
             seconds : {"10", "20"}, size : {Null, "1920x1080"},
             input_reference : {Omitted}, watermark : {Omitted}]
      [] t = "sora_query" -> [id : {"video_1"}]
      [] t = "klingus_i2v" ->
            [model_name : {"kling-v1"}, prompt : {"p", Variable}, image : {"img"},
             mode : {"std"}, duration : {"5"}, image_tail : {Omitted},
             enable_audio : {Omitted}, negative_prompt : {Omitted}, cfg_scale : {Omitted}]
      [] t = "klingus_query" -> [task_id : {"t1", Variable}]
      [] OTHER ->
            [model : {"gemini-2.5-flash-image"}, prompt : {"p"},
             refs : {<<>>, <<"ok">>, <<"fail", "ok">>}, ratio : {Omitted}, size : {Omitted}]

\* the parameters of the invocations explored up to the HTTP call: every
\* optional parameter is left out, set to the sentinel, or given a value
BuildCases(t) ==
    CASE t \in {"chat", "completions"} ->
            [model : {Omitted, Variable, "gpt-4o"}, messages : {<<>>, <<HelloMsg>>},
             prompt : {Null, "tell"}, temperature : {Omitted, Variable, Null, Zero, "0.7"},
             maxCompletionTokens : {Omitted, Variable, "64"}]
            \cup [model : {"gpt-4o"}, messages : SeqsUpTo(MsgAlphabet, MaxMsgs),
                  prompt : {Null, "tell"}, temperature : {Omitted},
                  maxCompletionTokens : {Omitted}]
      [] t = "responses" ->
            [apiKey : {Absent, Str(<<>>), Str(<<SP>>), NonStr(<<"123">>), Str(<<"sk-1">>)},
             model : {Omitted, "gpt-4o"}, messages : {<<>>}, prompt : {"tell"},
             stream : {Omitted, Variable, PyTrue},
             instructions : {Omitted, Variable, EmptyStr, "brief"},
             maxOutputTokens : {Omitted, Variable, Zero, "64"},
             maxCompletionTokens : {Omitted, "32"}]
            \cup [apiKey : {Str(<<"sk-1">>)}, model : {"gpt-4o"},
                  messages : { <<Msg("user", Content(k, u, <<>>))>> :
                                 k \in {"image", "file"},
                                 u \in SeqsUpTo({SP, BackTick, BackSlash, HttpsUrl, FtpUrl},
                                                MaxUrl) \ {<<>>} },
                  prompt : {Null}, stream : {Omitted}, instructions : {Omitted},
                  maxOutputTokens : {Omitted}, maxCompletionTokens : {Omitted}]
      [] t = "suno_submit" ->
            [apiKey : Scalars \cup {Omitted}, prompt : Scalars \cup {Omitted},
             mv : Scalars \cup {Omitted}, title : Scalars \cup {Omitted},
             tags : {Omitted, Variable, EmptyStr, "pop"}, task : {Omitted, Variable}]
      [] t = "suno_fetch" -> [apiKey : {Null, "v"}, task_id : Scalars \cup {Omitted}]
      [] t = "sora" ->
            [model : {Omitted, Variable, "sora-2", "sora-2-pro"}, prompt : {"p"},
             seconds : {Omitted, Variable, EmptyStr, "10", "15", "20"},
             size : {Omitted, Variable, "720x1280", "1920x1080"},
             input_reference : {Omitted, Variable, "ref"},
             watermark : {Omitted, Variable, Zero}]
      [] t = "sora_query" -> [id : {"video_1"}]
      [] t = "klingus_i2v" ->
            [model_name : {Omitted, Variable, "kling-v1"}, prompt : {"p"}, image : {"img"},
             mode : {Omitted, Variable, "pro"}, duration : {Omitted, Variable},
             image_tail : {Omitted, Variable, "tail"},
             enable_audio : {Omitted, Variable},
             negative_prompt : {Omitted, Variable, EmptyStr, "np"},
             cfg_scale : {Omitted, Variable, Zero}]
      [] t = "klingus_query" -> [task_id : {"t1", Variable}]
      [] OTHER ->
            [model : {"gemini-2.5-flash-image", "gemini-3-pro-image-preview"},
             prompt : {"p"}, refs : {<<>>}, ratio : {Omitted, Variable, "16:9"},
             size : {Omitted, Variable, "2K"}]

\* the code of _invoke up to the HTTP call
PrepareOf(t, p) ==
    CASE t \in {"chat", "completions"} -> ChatPrepare(p)
      [] t = "responses" -> ResponsesPrepare(p)
      [] t = "suno_submit" -> SunoSubmitPrepare(p)
      [] t = "suno_fetch" -> SunoFetchPrepare(p)
      [] t = "sora" -> SoraPrepare(p)
      [] t = "sora_query" -> SoraQueryPrepare(p)
      [] t = "klingus_i2v" -> KlingusI2VPrepare(p)
      [] t = "klingus_query" -> KlingusQueryPrepare(p)
      [] OTHER -> Prepared(BananaRequest(p))

\* a failure: where it was raised, str(e), and the handler that caught it:
\* "top" (the except of _invoke), "envelope" (an inner handler that yields a
\* failure envelope) or "swallowed" (logged, execution continues)
Fail(where, msg, handler) == [where |-> where, msg |-> msg, handler |-> handler]

\* `except Exception as e:` at the end of every _invoke: one failure envelope
\* TopLevelHandlerReraise: an _invoke without the handler, not the code
TopLevelHandlerReraise(t, msg) == [out |-> <<>>, propagated |-> TRUE]
TopLevelHandler(t, msg) == [out |-> <<Json(TopLevelEnvelope(t, msg))>>, propagated |-> FALSE]

AggState ==
    [accumulated_text |-> accumulated_text, finish_reason |-> finish_reason,
     model_id |-> model_id, completion_id |-> completion_id,
     created_ts |-> created_ts, error_info |-> error_info]

SetAgg(st) ==
    /\ accumulated_text' = st.accumulated_text
    /\ finish_reason' = st.finish_reason
    /\ model_id' = st.model_id
    /\ completion_id' = st.completion_id
    /\ created_ts' = st.created_ts
    /\ error_info' = st.error_info

\* an exception reaches the except clause of _invoke
RaiseTop(where, msg) ==
    LET h == TopLevelHandler(tool, msg) IN
    /\ emitted' = emitted \o h.out
    /\ propagated' = h.propagated
    /\ failures' = failures \cup {Fail(where, msg, "top")}
    /\ pc' = "done"

Init ==
    /\ tool \in Tools
    /\ params \in ParamCases(tool)
    /\ pc = "start"
    /\ requests = <<>>
    /\ response = NoResponse
    /\ pos = 0
    /\ accumulated_text = <<>>
    /\ finish_reason = Null
    /\ model_id = Null
    /\ completion_id = Null
    /\ created_ts = Null
    /\ error_info = NoError
    /\ images = <<>>
    /\ emitted = <<>>
    /\ failures = {}
    /\ propagated = FALSE

\* banana_gen.py:83-99: one GET per reference image
RECURSIVE Downloads(_)
Downloads(refs) ==
    IF refs = <<>> THEN <<>>
    ELSE << [url |-> "reference image"] >> \o Downloads(Tail(refs))

DownloadFailures(t, p) ==
    IF t = "banana" /\ \E i \in 1..Len(p.refs) : p.refs[i] = "fail"
        THEN {Fail("download", <<"reference image download failed">>, "swallowed")}
    ELSE {}

\* _invoke rejects the parameters: no request is sent
InvokeRejects ==
    /\ pc = "start"
    /\ ~PrepareOf(tool, params).ok
    /\ RaiseTop("prepare", PrepareOf(tool, params).exc)
    /\ UNCHANGED <<tool, params, requests, response, pos, aggVars, images>>

\* SentRequestsTwice: the request to the endpoint is sent a second time, not the code
SentRequestsTwice(t, p) ==
    (IF t = "banana" THEN Downloads(p.refs) ELSE <<>>)
    \o <<PrepareOf(t, p).request, PrepareOf(t, p).request>>

\* the HTTP calls of one invocation: the downloads of the image tool's reference
\* images, then one call to the endpoint
SentRequests(t, p) ==
    (IF t = "banana" THEN Downloads(p.refs) ELSE <<>>) \o <<PrepareOf(t, p).request>>

\* _invoke builds the request and calls requests.post / requests.get
InvokeSends ==
    /\ pc = "start"
    /\ PrepareOf(tool, params).ok
    /\ requests' = requests \o SentRequests(tool, params)
    /\ failures' = failures \cup DownloadFailures(tool, params)
    /\ pc' = "awaiting"
    /\ UNCHANGED <<tool, params, response, pos, aggVars, images, emitted, propagated>>

\* the HTTP call raises (connection error, timeout)
NetworkError ==
    /\ pc = "awaiting"
    /\ IF tool = "suno_submit"       \* suno_submit_music.py:60-63
          THEN /\ emitted' = emitted \o
                       << Json([success |-> FALSE,
                                message |-> <<"network error, cannot reach the API">>,
                                error |-> ConnectionErr]) >>
               /\ failures' = failures \cup {Fail("http", ConnectionErr, "envelope")}
               /\ pc' = "done"
               /\ UNCHANGED propagated
          ELSE RaiseTop("http", ConnectionErr)
    /\ UNCHANGED <<tool, params, requests, response, pos, aggVars, images>>

\* a streaming tool gets the response headers
\* (openai_chat.py:26-32, openai_responses.py:121-127)
\* response.text of a failed status reads the whole body
StreamRespond ==
    /\ pc = "awaiting"
    /\ tool \in StreamingTools
    /\ \E status \in StatusCodes :
          IF ~ResponseOk(status)
             THEN \E lines \in Bodies(tool, status) :
                     /\ response' = Response(status, StatusText(status), lines, NotJson)
                     /\ RaiseTop("status", ApiFailedMsg(status, StatusText(status)))
             ELSE /\ response' = Streaming(status, StatusText(status))
                  /\ pc' = "streaming"
                  /\ UNCHANGED <<emitted, failures, propagated>>
    /\ UNCHANGED <<tool, params, requests, pos, aggVars, images>>

\* the server sends one more line of the body: response.iter_lines() has it
\* when the loop asks for the next line; after a break or a raise the line is
\* sent and never read
LineArrives ==
    /\ tool \in StreamingTools
    /\ pc \in {"streaming", "done"}
    /\ ~response.complete
    /\ pc = "streaming" => pos = Len(response.lines)
    /\ Len(response.lines) < MaxBody(response.status)
    /\ \E raw \in UpstreamLines(tool, response.status, requests[Len(requests)]) :
          response' = [response EXCEPT !.lines = Append(@, raw)]
    /\ UNCHANGED <<tool, params, pc, requests, pos, aggVars, images, emitted, failures,
                   propagated>>

\* one iteration of the loop over response.iter_lines()
StreamLine ==
    /\ pc = "streaming"
    /\ pos < Len(response.lines)
    /\ LET r == LineStep(tool, AggState, response.lines[pos + 1]) IN
          /\ pos' = pos + 1
          /\ SetAgg(r.st)
          /\ CASE r.ctl = "continue" ->
                    /\ pc' = "streaming"
                    /\ failures' = IF r.exc = NoExc THEN failures
                                   ELSE failures \cup {Fail("stream", r.exc, "swallowed")}
                    /\ UNCHANGED <<emitted, propagated>>
               [] r.ctl = "break" ->
                    /\ emitted' = emitted \o <<Json(StreamResult(r.st))>>
                    /\ pc' = "done"
                    /\ UNCHANGED <<failures, propagated>>
               [] OTHER -> RaiseTop("stream", r.exc)
    /\ UNCHANGED <<tool, params, requests, response, images>>

\* the body is exhausted: the result is returned and yielded
StreamEnd ==
    /\ pc = "streaming"
    /\ pos = Len(response.lines)
    /\ response' = [response EXCEPT !.complete = TRUE]
    /\ emitted' = emitted \o <<Json(StreamResult(AggState))>>
    /\ pc' = "done"
    /\ UNCHANGED <<tool, params, requests, pos, aggVars, images, failures, propagated>>

\* sora, sora_query, klingus_i2v, klingus_query get the response
JsonRespond ==
    /\ pc = "awaiting"
    /\ tool \in JsonTools
    /\ \E status \in StatusCodes : \E json \in JsonBodies :
          LET resp == Response(status, StatusText(status), <<>>, json)
              m == MapJson(tool, resp)
          IN  /\ response' = resp
              /\ IF ~ResponseOk(status)
                    THEN RaiseTop("status", ApiFailedMsg(status, resp.text))
                 ELSE IF ~m.ok THEN RaiseTop("parse", m.exc)
                 ELSE /\ emitted' = emitted \o <<Json(SuccessEnvelope(tool, m.data))>>
                      /\ pc' = "done"
                      /\ UNCHANGED <<failures, propagated>>
    /\ UNCHANGED <<tool, params, requests, pos, aggVars, images>>

\* suno_submit_music.py:65-78, suno_fetch_music.py:29-42
SunoRespond ==
    /\ pc = "awaiting"
    /\ tool \in SunoTools
    /\ \E status \in StatusCodes : \E json \in {NotJson, NonDictJson} :
          LET resp == Response(status, StatusText(status), <<>>, json) IN
          /\ response' = resp
          /\ pc' = "done"
          /\ IF ~ResponseOk(status)
                THEN /\ emitted' = emitted \o
                            << Json([success |-> FALSE, message |-> <<resp.text>>,
                                     error |-> <<resp.text>>]) >>
                     /\ failures' = failures \cup
                                        {Fail("status", <<resp.text>>, "envelope")}
                ELSE /\ emitted' = emitted \o
                            <<Json(SuccessEnvelope(tool, SunoData(resp)))>>
                     /\ failures' = IF json.kind = "notjson"
                                        THEN failures \cup
                                             {Fail("parse", JsonDecodeErr, "swallowed")}
                                    ELSE failures
    /\ UNCHANGED <<tool, params, requests, pos, aggVars, images, propagated>>

\* banana_gen.py:136-175
BananaRespond ==
    /\ pc = "awaiting"
    /\ tool = "banana"
    /\ \E status \in StatusCodes : \E json \in BananaJsonBodies(status) :
          LET resp == Response(status, StatusText(status), <<>>, json) IN
          /\ response' = resp
          /\ IF ~ResponseOk(status)
                THEN RaiseTop("status", BananaErrorMessage(resp)) /\ UNCHANGED images
             ELSE IF json.kind = "notjson"
                THEN RaiseTop("parse", JsonDecodeErr) /\ UNCHANGED images
             ELSE IF ExtractImages(json) = <<>>
                THEN RaiseTop("parse", NoImagesMsg) /\ UNCHANGED images
             ELSE /\ images' = ExtractImages(json)
                  /\ pc' = "emitting"
                  /\ UNCHANGED <<emitted, failures, propagated>>
    /\ UNCHANGED <<tool, params, requests, pos, aggVars>>

\* banana_gen.py:178-201: one iteration of the loop over images
BananaImage ==
    /\ pc = "emitting"
    /\ pos < Len(images)
    /\ pos' = pos + 1
    /\ LET image == images[pos + 1] IN
          IF image.data = "valid"
             THEN /\ \E suffix \in Suffixes :
                        emitted' = emitted \o
                            << Blob(FileName(pos + 1, suffix, FileExtension(image.mimeType)),
                                    image.mimeType) >>
                  /\ UNCHANGED failures
             ELSE /\ failures' = failures \cup
                        {Fail("decode", <<"Incorrect padding">>, "swallowed")}
                  /\ UNCHANGED emitted
    /\ UNCHANGED <<tool, params, pc, requests, response, aggVars, images, propagated>>

\* banana_gen.py:203-204: the loop ends, nothing more is yielded
BananaEnd ==
    /\ pc = "emitting"
    /\ pos = Len(images)
    /\ pc' = "done"
    /\ UNCHANGED <<tool, params, requests, response, pos, aggVars, images, emitted,
                   failures, propagated>>

Next ==
    \/ InvokeRejects
    \/ InvokeSends
    \/ NetworkError
    \/ StreamRespond
    \/ LineArrives
    \/ StreamLine
    \/ StreamEnd
    \/ JsonRespond
    \/ SunoRespond
    \/ BananaRespond
    \/ BananaImage
    \/ BananaEnd

Spec == Init /\ [][Next]_vars

\* the invocations up to the HTTP call, over every parameter case
InitBuild ==
    /\ tool \in Tools
    /\ params \in BuildCases(tool)
    /\ pc = "start"
    /\ requests = <<>>
    /\ response = NoResponse
    /\ pos = 0
    /\ accumulated_text = <<>>
    /\ finish_reason = Null
    /\ model_id = Null
    /\ completion_id = Null
    /\ created_ts = Null
    /\ error_info = NoError
    /\ images = <<>>
    /\ emitted = <<>>
    /\ failures = {}
    /\ propagated = FALSE

NextBuild ==
    \/ InvokeRejects
    \/ InvokeSends

SpecBuild == InitBuild /\ [][NextBuild]_vars

----------------------------------------------------------------------------
(* The aggregation loop as a whole: the lines of a 2xx body are consumed   *)
(* in order until one breaks or raises (openai_chat.py:44-98,              *)
(* openai_responses.py:139-234)                                            *)

RECURSIVE RunFrom(_, _, _, _)
RunFrom(t, st, lines, i) ==
    IF i > Len(lines)
        THEN [ctl |-> "end", exc |-> NoExc, st |-> st, consumed |-> Len(lines)]
    ELSE LET r == LineStep(t, st, lines[i]) IN
         IF r.ctl = "continue" THEN RunFrom(t, r.st, lines, i + 1)
         ELSE [ctl |-> r.ctl, exc |-> r.exc, st |-> r.st, consumed |-> i]

\* the messages one invocation yields for a 2xx body
Outcome(t, lines) ==
    LET r == RunFrom(t, AggInit, lines, 1) IN
    IF r.ctl = "raise" THEN TopLevelHandler(t, r.exc).out
    ELSE <<Json(StreamResult(r.st))>>

----------------------------------------------------------------------------
(* Vocabulary of the claims: what a body line is, read off the wire format *)

IsDataLine(raw) == StartsWith(DecodeLine(raw), DataPrefix)
IsDoneLine(raw) == IsDataLine(raw) /\ PayloadOf(DecodeLine(raw)) = DoneSentinel

JsonOf(t, raw) ==
    IF t = "responses" THEN ResponsesJsonLoads(PayloadOf(DecodeLine(raw)))
    ELSE ChatJsonLoads(PayloadOf(DecodeLine(raw)))

\* a data line whose payload is neither [DONE] nor JSON
IsMalformedLine(t, raw) == IsDataLine(raw) /\ ~IsDoneLine(raw) /\ ~JsonOf(t, raw).ok

\* a data line that carries a JSON object
IsFrame(t, raw) == IsDataLine(raw) /\ ~IsDoneLine(raw) /\ JsonOf(t, raw).isdict
FrameOf(t, raw) == JsonOf(t, raw).obj

\* the text fragment of a delta frame, <<>> for any other line
DeltaFragment(t, raw) ==
    IF ~IsFrame(t, raw) THEN <<>>
    ELSE LET f == FrameOf(t, raw) IN
         IF t = "responses"
             THEN IF ContainsDelta(f.type) /\ f.delta.kind = "str" THEN f.delta.text
                  ELSE <<>>
         ELSE IF f.choices # <<>> /\ f.choices[1].isdict
                 /\ f.choices[1].delta.kind = "dict"
                 /\ f.choices[1].delta.content.kind = "str"
             THEN f.choices[1].delta.content.text
         ELSE <<>>

RECURSIVE DeltaFragments(_, _)
DeltaFragments(t, lines) ==
    IF lines = <<>> THEN <<>>
    ELSE DeltaFragment(t, Head(lines)) \o DeltaFragments(t, Tail(lines))

\* index of the first [DONE] line, Len + 1 when there is none
RECURSIVE FirstDone(_, _)
FirstDone(lines, i) ==
    IF i > Len(lines) \/ IsDoneLine(lines[i]) THEN i ELSE FirstDone(lines, i + 1)

BeforeDone(lines) == SubSeq(lines, 1, FirstDone(lines, 1) - 1)
TruncateAtDone(lines) ==
    SubSeq(lines, 1, IF FirstDone(lines, 1) > Len(lines) THEN Len(lines)
                     ELSE FirstDone(lines, 1))

\* a frame that is no delta frame and still carries text the aggregator takes:
\* a response.completed event with output text (taken while nothing has been
\* accumulated), a chat frame whose delta is no object and whose message has content
CarriesOtherText(t, raw) ==
    /\ IsFrame(t, raw)
    /\ LET f == FrameOf(t, raw) IN
       IF t = "responses"
           THEN f.type = TypeCompleted /\ f.response.kind = "dict"
                /\ OutputText(f.response.output) # <<>>
       ELSE f.choices # <<>> /\ f.choices[1].isdict
            /\ f.choices[1].delta.kind = "nondict"
            /\ f.choices[1].message.content.kind = "str"
            /\ f.choices[1].message.content.text # <<>>

\* some line i carries other text and the delta frames before it carry none
OtherTextTaken(t, lines) ==
    \E i \in 1..Len(lines) :
        /\ CarriesOtherText(t, lines[i])
        /\ (t = "responses" => DeltaFragments(t, SubSeq(lines, 1, i - 1)) = <<>>)

Streamed == tool \in StreamingTools /\ pc \in {"streaming", "done"}
\* the HTTP response has arrived (status line and body)
Received == Streamed /\ response # NoResponse
Succeeded ==
    /\ pc = "done"
    /\ Len(emitted) = 1
    /\ emitted[1].kind = "json"
    /\ emitted[1].body.success
SuccessContent == emitted[1].body.data.content

----------------------------------------------------------------------------
(* C1  Delta ordering *)

\* C1 as stated: on a 2xx stream the content of the success envelope is the
\* concatenation, in arrival order, of the fragments of the delta frames of the
\* stream (read up to its [DONE]), whatever non-delta frames are interleaved.
C1_AllDeltaFrames ==
    (Streamed /\ Succeeded /\ response.status = 200)
        => SuccessContent = DeltaFragments(tool, BeforeDone(response.lines))

\* C1 amended: the content of the success envelope is the concatenation, in arrival
\* order, of the fragments of the delta frames before the first [DONE], unless a
\* non-delta frame contributed text (a response.completed event with output text met
\* while nothing was accumulated; a chat frame with a non-object delta and message
\* content).
C1_DeltaOrdering ==
    (Streamed /\ Succeeded /\ ~OtherTextTaken(tool, BeforeDone(response.lines)))
        => SuccessContent = DeltaFragments(tool, BeforeDone(response.lines))

C1_Witness ==
    /\ Streamed /\ Succeeded
    /\ ~OtherTextTaken(tool, BeforeDone(response.lines))
    /\ Len(response.lines) = 3
    /\ DeltaFragment(tool, response.lines[1]) = FragA
    /\ ~IsDataLine(response.lines[2])
    /\ DeltaFragment(tool, response.lines[3]) = FragB
    /\ SuccessContent = FragA \o FragB

----------------------------------------------------------------------------
(* C2, C3  Metadata latch *)

\* the metadata a line carries: the frame's model / id / created (created_at of the
\* nested response object in the responses tool) and the first choice's
\* finish_reason; Null for a field the line does not carry
NoMeta == [model |-> Null, id |-> Null, created |-> Null, finish_reason |-> Null]

LineMeta(t, raw) ==
    IF ~IsFrame(t, raw) THEN NoMeta
    ELSE LET f == FrameOf(t, raw) IN
         IF t = "responses"
             THEN [model |-> f.response.model, id |-> f.response.id,
                   created |-> f.response.created_at, finish_reason |-> Null]
         ELSE [model |-> f.model, id |-> f.id, created |-> f.created,
               finish_reason |-> IF f.choices # <<>> /\ f.choices[1].isdict
                                     THEN f.choices[1].finish_reason ELSE Null]

\* the line the aggregator is about to consume
NextLine == response.lines[pos + 1]
Consuming == tool \in StreamingTools /\ pc = "streaming" /\ pos < Len(response.lines)

\* C2: once model, id or created is non-null, a frame that carries null for the
\* field (or no such field) leaves it as it is, and no step makes it null again.
C2_MetadataLatch ==
    [][ Consuming =>
          /\ (model_id # Null =>
                /\ model_id' # Null
                /\ (LineMeta(tool, NextLine).model = Null => model_id' = model_id))
          /\ (completion_id # Null =>
                /\ completion_id' # Null
                /\ (LineMeta(tool, NextLine).id = Null => completion_id' = completion_id))
          /\ (created_ts # Null =>
                /\ created_ts' # Null
                /\ (LineMeta(tool, NextLine).created = Null => created_ts' = created_ts))
      ]_vars

\* a frame with null metadata has been consumed after the fields were set
C2_Witness ==
    /\ Streamed /\ pos >= 2
    /\ model_id = "m1" /\ completion_id = "id1" /\ created_ts = "1001"
    /\ IsFrame(tool, response.lines[pos])
    /\ LineMeta(tool, response.lines[pos]) = NoMeta

\* the first / the last value of a field among the lines that is neither null
\* nor empty nor zero, Null if there is none
RECURSIVE FirstValue(_, _, _)
FirstValue(t, lines, field) ==
    IF lines = <<>> THEN Null
    ELSE IF Truthy(LineMeta(t, Head(lines))[field]) THEN LineMeta(t, Head(lines))[field]
    ELSE FirstValue(t, Tail(lines), field)

RECURSIVE LastValue(_, _, _)
LastValue(t, lines, field) ==
    IF lines = <<>> THEN Null
    ELSE LET v == LineMeta(t, lines[Len(lines)])[field] IN
         IF Truthy(v) THEN v ELSE LastValue(t, SubSeq(lines, 1, Len(lines) - 1), field)

SuccessMetadata == emitted[1].body.metadata

\* C3 as stated: the final model, id, created (and, in the chat tools,
\* finish_reason) are those of the first frame that carried a non-null value.
C3_FirstNonNullWins ==
    (Streamed /\ Succeeded) =>
        LET seen == BeforeDone(response.lines) IN
        /\ SuccessMetadata.model = FirstValue(tool, seen, "model")
        /\ SuccessMetadata.id = FirstValue(tool, seen, "id")
        /\ SuccessMetadata.created = FirstValue(tool, seen, "created")
        /\ (tool # "responses" =>
                SuccessMetadata.finishReason = FirstValue(tool, seen, "finish_reason"))

\* C3 amended: the final model, id, created (and, in the chat tools, finish_reason)
\* are those of the last frame before [DONE] that carried a non-null, non-empty,
\* non-zero value; a later such value overwrites an earlier one, a later null does not.
C3_LastNonNullWins ==
    (Streamed /\ Succeeded) =>
        LET seen == BeforeDone(response.lines) IN
        /\ SuccessMetadata.model = LastValue(tool, seen, "model")
        /\ SuccessMetadata.id = LastValue(tool, seen, "id")
        /\ SuccessMetadata.created = LastValue(tool, seen, "created")
        /\ (tool # "responses" =>
                /\ SuccessMetadata.finishReason = LastValue(tool, seen, "finish_reason")
                /\ emitted[1].body.data.finishReason = SuccessMetadata.finishReason)

\* two frames with different models, then one with null: the second model is reported
C3_Witness ==
    /\ Streamed /\ Succeeded
    /\ Len(response.lines) = 3
    /\ LineMeta(tool, response.lines[1]).model = "m1"
    /\ LineMeta(tool, response.lines[2]).model = "m2"
    /\ IsFrame(tool, response.lines[3])
    /\ LineMeta(tool, response.lines[3]).model = Null
    /\ SuccessMetadata.model = "m2"

----------------------------------------------------------------------------
(* C4  Malformed-line resilience *)

RECURSIVE WithoutMalformed(_, _)
WithoutMalformed(t, lines) ==
    IF lines = <<>> THEN <<>>
    ELSE (IF IsMalformedLine(t, Head(lines)) THEN <<>> ELSE <<Head(lines)>>)
         \o WithoutMalformed(t, Tail(lines))

\* C4: a data line that is not JSON changes no aggregator state and does not stop
\* the stream: after any number of lines the aggregator is in the state it reaches
\* on the same lines without the malformed ones, and the invocation yields what it
\* yields for the stream without them.
C4_MalformedLineResilience ==
    (Received /\ ResponseOk(response.status)) =>
        /\ pc = "streaming" =>
              LET r == RunFrom(tool, AggInit,
                               WithoutMalformed(tool, SubSeq(response.lines, 1, pos)), 1)
              IN  r.ctl = "end" /\ r.st = AggState
        /\ pc = "done" => emitted = Outcome(tool, WithoutMalformed(tool, response.lines))

\* a malformed line between two delta frames
C4_Witness ==
    /\ Streamed /\ Succeeded
    /\ Len(response.lines) = 3
    /\ DeltaFragment(tool, response.lines[1]) = FragA
    /\ IsMalformedLine(tool, response.lines[2])
    /\ DeltaFragment(tool, response.lines[3]) = FragB
    /\ SuccessContent = FragA \o FragB

----------------------------------------------------------------------------
(* C5  DONE precedence *)

\* C5: the invocation yields what it yields for the stream truncated at its first
\* [DONE], and no line after the first [DONE] is consumed.
C5_DonePrecedence ==
    (Received /\ ResponseOk(response.status)) =>
        /\ pos <= FirstDone(response.lines, 1)
        /\ pc = "done" => emitted = Outcome(tool, TruncateAtDone(response.lines))

\* [DONE] followed by a delta frame or a failure event
C5_Witness ==
    /\ Streamed /\ Succeeded
    /\ Len(response.lines) = 3
    /\ DeltaFragment(tool, response.lines[1]) = FragA
    /\ IsDoneLine(response.lines[2])
    /\ IsFrame(tool, response.lines[3])
    /\ (DeltaFragment(tool, response.lines[3]) = FragB
        \/ (tool = "responses" /\ FrameOf(tool, response.lines[3]).type = TypeFailed))
    /\ SuccessContent = FragA

----------------------------------------------------------------------------
(* C6  Failure-event short-circuit *)

IsFailedFrame(t, raw) ==
    t = "responses" /\ IsFrame(t, raw) /\ FrameOf(t, raw).type = TypeFailed

\* the line consumed last
LastLine == response.lines[pos]

\* C6: in the responses tool, once a response.failed event is consumed the
\* invocation is over: no later line is consumed, and exactly one envelope is
\* emitted, with success = false, without data, whose error is made of the code
\* and message of the event's nested error; the envelope is the same whether or
\* not deltas were accumulated before.
C6_FailureEventShortCircuit ==
    (tool = "responses" /\ Received /\ ResponseOk(response.status)) =>
        /\ \A i \in 1..pos : IsFailedFrame(tool, response.lines[i]) => i = pos
        /\ (pos >= 1 /\ IsFailedFrame(tool, LastLine)) =>
              LET err == FrameOf(tool, LastLine).response.error IN
              /\ pc = "done"
              /\ Len(emitted) = 1
              /\ emitted[1].kind = "json"
              /\ ~emitted[1].body.success
              /\ DOMAIN emitted[1].body = {"success", "message", "error"}
              /\ err.kind = "obj" =>
                    emitted[1].body.error =
                        <<"response failed: ", err.code, " - ", err.message>>
              /\ emitted[1].body.message = emitted[1].body.error

\* a failure event first, delta frames after it
C6_Witness ==
    /\ tool = "responses" /\ Received /\ pc = "done"
    /\ Len(response.lines) = 3
    /\ IsFailedFrame(tool, response.lines[1])
    /\ FrameOf(tool, response.lines[1]).response.error.kind = "obj"
    /\ DeltaFragment(tool, response.lines[2]) = FragA
    /\ DeltaFragment(tool, response.lines[3]) = FragB
    /\ pos = 1
    /\ accumulated_text = <<>>
    /\ emitted = << Json(FailureEnvelope(<<"response failed: ", "rate_limit", " - ",
                                           "slow down">>, DefaultFailMsg(tool))) >>

----------------------------------------------------------------------------
(* C7  What aborts a stream *)

Is2xx(status) == 200 =< status /\ status < 300

\* C7 as stated: a 2xx streaming response whose body has no failure event ends
\* in one success envelope, whatever the payloads of its data lines are.
C7_OnlyFailureEventAborts ==
    ( /\ Received /\ pc = "done"
      /\ Is2xx(response.status)
      /\ \A i \in 1..Len(response.lines) : ~IsFailedFrame(tool, response.lines[i]) )
        => Succeeded

----------------------------------------------------------------------------
(* C8  Initial status *)

\* what the claim promises for a failed initial status: no line consumed, the
\* aggregator untouched, one failure envelope naming the status code and the
\* body text, without data and without metadata
StatusFailure ==
    /\ pc = "done"
    /\ pos = 0
    /\ AggState = AggInit
    /\ Len(emitted) = 1
    /\ emitted[1].kind = "json"
    /\ ~emitted[1].body.success
    /\ emitted[1].body.error = ApiFailedMsg(response.status, response.text)
    /\ DOMAIN emitted[1].body = {"success", "message", "error"}

\* C8 as stated: a streaming tool whose initial status is not 2xx fails without
\* reading the body.
C8_Non2xxStatus ==
    (Received /\ ~Is2xx(response.status)) => StatusFailure

----------------------------------------------------------------------------
(* C9  Number of messages of an invocation *)

IsEnvelope(m) == m.kind = "json"
IsArtifact(m) == m.kind = "blob"

\* C9 as stated: a finished invocation has emitted exactly one envelope, or
\* binary artifacts followed by at most one envelope; never nothing.
C9_NeverZeroMessages ==
    pc = "done" =>
        /\ Len(emitted) >= 1
        /\ \/ Len(emitted) = 1 /\ IsEnvelope(emitted[1])
           \/ /\ \A i \in 1..(Len(emitted) - 1) : IsArtifact(emitted[i])
              /\ Len(emitted) =< MaxImages + 1

----------------------------------------------------------------------------
(* C10  No unhandled failure *)

IsFailureEnvelopeOf(m, f) ==
    IsEnvelope(m) /\ ~m.body.success /\ m.body.error = f.msg

\* C10 as stated: every failure raised in an invocation has become an emitted
\* envelope with success = false and error = its message, and none reaches the host.
C10_EveryFailureEnveloped ==
    /\ ~propagated
    /\ pc = "done" =>
          \A f \in failures : \E i \in 1..Len(emitted) : IsFailureEnvelopeOf(emitted[i], f)

\* C10 amended: no failure reaches the host, and every failure that is not
\* recovered where it is raised (a malformed stream line, an image that does not
\* decode, a reference image that does not download, a Suno body that is not JSON)
\* ends the invocation with exactly one message, an envelope with success = false
\* and error = the failure's message.
C10_NoUnhandledFailure ==
    /\ ~propagated
    /\ pc = "done" =>
          \A f \in failures :
              f.handler # "swallowed" =>
                  /\ Len(emitted) = 1
                  /\ IsFailureEnvelopeOf(emitted[1], f)
    /\ (pc = "done" /\ Len(emitted) >= 1 /\ IsEnvelope(emitted[Len(emitted)])
          /\ ~emitted[Len(emitted)].body.success)
          => \E f \in failures : f.handler # "swallowed"

\* a response that does not have the expected structure, caught by the handler of
\* sora_video._invoke
C10_Witness ==
    /\ tool = "sora" /\ pc = "done"
    /\ response.status = 200
    /\ \E f \in failures :
          /\ f.where = "parse" /\ f.handler = "top"
          /\ emitted = <<Json(FailureEnvelope(f.msg, DefaultFailMsg(tool)))>>


----------------------------------------------------------------------------
(* Request bodies: what the claims about parameters talk about *)

\* the request of the invocation has been handed to the HTTP library
Sent == pc # "start" /\ requests # <<>>
\* the outbound request body of the invocation
Body == requests[Len(requests)]

\* the parameters a caller may leave out, per tool
OptionalParams(t) ==
    CASE t \in {"chat", "completions"} -> {"model", "temperature", "maxCompletionTokens"}
      [] t = "responses" ->
            {"model", "stream", "instructions", "maxOutputTokens", "maxCompletionTokens"}
      [] t = "suno_submit" -> {"tags", "task"}
      [] t = "sora" -> {"model", "seconds", "size", "input_reference", "watermark"}
      [] t = "klingus_i2v" ->
            {"model_name", "mode", "duration", "image_tail", "enable_audio",
             "negative_prompt", "cfg_scale"}
      [] t = "banana" -> {"ratio", "size"}
      [] OTHER -> {}

\* C11: an invocation that passes the sentinel 'variable' for an optional
\* parameter builds the same request body as the invocation that leaves the
\* parameter out, the other parameters being equal.
C11_SentinelIsOmission ==
    Sent =>
        \A k \in OptionalParams(tool) :
            params[k] = Variable =>
                LET omitted == PrepareOf(tool, [params EXCEPT ![k] = Omitted]) IN
                omitted.ok /\ omitted.request = Body

\* the keys of the request body that carry an optional parameter, per tool
OptionalKeys(t) ==
    CASE t \in {"chat", "completions"} -> {"temperature", "max_completion_tokens"}
      [] t = "responses" -> {"instructions", "max_output_tokens"}
      [] t = "suno_submit" -> {"tags", "task"}
      [] t = "sora" -> {"seconds", "size", "input_reference", "watermark"}
      [] t = "klingus_i2v" ->
            {"mode", "duration", "image_tail", "enable_audio", "negative_prompt",
             "cfg_scale"}
      [] t = "banana" -> {"aspectRatio", "imageSize"}
      [] OTHER -> {}

\* C12: the key of an optional field is present in the request body only with
\* a non-null value: no request body contains an optional key mapped to null.
C12_NoNullOptionalKey ==
    Sent => \A k \in OptionalKeys(tool) \cap DOMAIN Body : Body[k] # Null

\* a parameter the tool requires is absent, null or empty (for the API key of
\* the responses tool: absent, not a string, or blank)
RequiredMissing ==
    CASE tool = "suno_submit" ->
            \E k \in {"apiKey", "prompt", "mv", "title"} :
                params[k] \in {Omitted, Null, EmptyStr}
      [] tool = "suno_fetch" -> params.task_id \in {Omitted, Null, EmptyStr}
      [] tool = "responses" ->
            params.apiKey.kind # "str" \/ Strip(params.apiKey.text) = <<>>
      [] OTHER -> FALSE

\* C13: when a required parameter of the Suno submit tool (apiKey, prompt, mv,
\* title), of the Suno fetch tool (task_id) or of the responses tool (apiKey)
\* is missing, no HTTP request is ever sent and the finished invocation has
\* emitted exactly one envelope, a failure envelope.
C13_MissingRequiredNoRequest ==
    RequiredMissing =>
        /\ requests = <<>>
        /\ pc \in {"start", "done"}
        /\ pc = "done" =>
              /\ Len(emitted) = 1
              /\ emitted[1].kind = "json"
              /\ emitted[1].body.success = FALSE

\* a finished responses invocation whose API key is blank
C13_Witness ==
    /\ tool = "responses" /\ params.apiKey = Str(<<SP>>)
    /\ RequiredMissing /\ pc = "done" /\ Len(emitted) = 1

\* the value the caller supplies for a parameter of the Sora tool
Supplied(k) == params[k] \notin {Omitted, Variable}

\* C14: in a request sent for model 'sora-2' a supplied seconds value outside
\* {"10","15"} is replaced by "10" and a supplied size outside
\* {720x1280, 1280x720} by 1280x720, a value inside the set is sent unchanged
\* and no failure envelope is emitted; for another model the supplied seconds
\* and size are sent unchanged.  Every request sent for model 'sora-2'
\* carries seconds in {"10","15"}.
C14_SoraCoercion ==
    (tool = "sora" /\ Sent) =>
        /\ emitted = <<>>
        /\ IF Body.model = "sora-2"
              THEN /\ Body.seconds \in {"10", "15"}
                   /\ Supplied("seconds") =>
                         Body.seconds = IF params.seconds \in {"10", "15"}
                                           THEN params.seconds ELSE "10"
                   /\ Supplied("size") =>
                         /\ "size" \in DOMAIN Body
                         /\ Body.size = IF params.size \in {"720x1280", "1280x720"}
                                            THEN params.size ELSE "1280x720"
              ELSE /\ Supplied("seconds") => Body.seconds = params.seconds
                   /\ Supplied("size") =>
                         "size" \in DOMAIN Body /\ Body.size = params.size

----------------------------------------------------------------------------
(* C15  Graceful end of stream *)

\* the first envelope emitted
Envelope == emitted[1].body

\* C15: a 2xx stream without a failure event ends, at [DONE] or at the end of
\* the body, in one success envelope {success, message, data: {content, role:
\* 'assistant', finishReason}, metadata: {model, id, created, finishReason,
\* serviceTier: null}} whose two finish reasons are equal; the result is that of
\* the same body with [DONE] appended, and a body without data lines gives
\* content '' and null finish reason, model, id and created.
C15_GracefulEndOfStream ==
    ( /\ Received /\ pc = "done"
      /\ Is2xx(response.status)
      /\ \A i \in 1..Len(response.lines) : ~IsFailedFrame(tool, response.lines[i]) )
        => /\ Succeeded
           /\ DOMAIN Envelope = {"success", "message", "data", "metadata"}
           /\ DOMAIN Envelope.data = {"content", "role", "finishReason"}
           /\ DOMAIN Envelope.metadata =
                  {"model", "id", "created", "finishReason", "serviceTier"}
           /\ Envelope.data.role = "assistant"
           /\ Envelope.metadata.serviceTier = Null
           /\ Envelope.data.finishReason = Envelope.metadata.finishReason
           /\ emitted = Outcome(tool, response.lines \o <<DataLine(DoneSentinel)>>)
           /\ (\A i \in 1..Len(response.lines) : ~IsDataLine(response.lines[i])) =>
                  /\ Envelope.data.content = <<>>
                  /\ Envelope.data.finishReason = Null
                  /\ Envelope.metadata.model = Null
                  /\ Envelope.metadata.id = Null
                  /\ Envelope.metadata.created = Null

----------------------------------------------------------------------------
(* C16  Envelope shape *)

\* C16: every JSON envelope emitted has a success field and a message field;
\* with success = true it carries data and no error, with success = false an
\* error and no data.
C16_EnvelopeShape ==
    \A i \in 1..Len(emitted) :
        emitted[i].kind = "json" =>
            LET env == emitted[i].body IN
            /\ {"success", "message"} \subseteq DOMAIN env
            /\ env.success \in BOOLEAN
            /\ IF env.success
                  THEN "data" \in DOMAIN env /\ "error" \notin DOMAIN env
                  ELSE "error" \in DOMAIN env /\ "data" \notin DOMAIN env

----------------------------------------------------------------------------
(* C17  Per-image isolation *)

\* the extension the MIME table gives, 'png' for a type that is not in it
TableExtension(mime) ==
    IF mime = "image/png" THEN "png"
    ELSE IF mime \in {"image/jpeg", "image/jpg"} THEN "jpg"
    ELSE IF mime = "image/gif" THEN "gif"
    ELSE IF mime = "image/webp" THEN "webp"
    ELSE "png"

Decodes(image) == image.data = "valid"

\* C17: for a 2xx response whose first candidate holds inline images, after the
\* loop has handled the first pos images the artifacts emitted are, in order,
\* those of the images among them that decode, each with the image's own
\* mime_type and the extension of the MIME table; an image that fails to
\* decode is skipped, and the file names are pairwise distinct.
C17_PerImageIsolation ==
    (tool = "banana" /\ pc \in {"emitting", "done"} /\ images # <<>>) =>
        LET decoded == SelectSeq(SubSeq(images, 1, pos), Decodes) IN
        /\ images = InlineImages(response.json.candidates[1])
        /\ Len(emitted) = Len(decoded)
        /\ \A j \in 1..Len(decoded) :
              /\ emitted[j].kind = "blob"
              /\ emitted[j].mime_type = decoded[j].mimeType
              /\ emitted[j].file_name[Len(emitted[j].file_name)]
                    = TableExtension(decoded[j].mimeType)
        /\ \A j, k \in 1..Len(emitted) :
              j # k => emitted[j].file_name # emitted[k].file_name

\* the first image fails to decode, the second, of a type the table does not
\* know, is emitted
C17_Witness ==
    /\ tool = "banana" /\ pc = "done"
    /\ Len(images) = 2
    /\ ~Decodes(images[1]) /\ Decodes(images[2])
    /\ images[2].mimeType = "image/bmp"
    /\ Len(emitted) = 1
    /\ emitted[1].kind = "blob"

----------------------------------------------------------------------------
(* C18  HTTP status error message of the image tool *)

Has(text, token) == \E i \in 1..Len(text) : text[i] = token

\* what the claim's extraction order gives for a body: the error string, else
\* error.message, else the top-level message, else the raw status text
ExtractedBody(resp) ==
    LET e == resp.json.err IN
    CASE resp.json.kind # "dict" -> StatusReason(resp.status)
      [] e = "error_str" -> "error string"
      [] e = "error_obj_message" -> "error.message"
      [] e = "message" -> "message"
      [] OTHER -> StatusReason(resp.status)

\* C18: on a failed status the error of the image tool's failure envelope
\* includes the status code together with the error text extracted from the
\* body (error string, then error.message, then message, else the raw status
\* text).
C18_StatusErrorMessage ==
    (tool = "banana" /\ pc = "done" /\ response # NoResponse
        /\ ~ResponseOk(response.status)) =>
        /\ Len(emitted) = 1
        /\ emitted[1].kind = "json"
        /\ ~emitted[1].body.success
        /\ Has(emitted[1].body.error, ToString(response.status))
        /\ Has(emitted[1].body.error, ExtractedBody(response))

----------------------------------------------------------------------------
(* C19  Completion fallback of the responses aggregator *)

IsCompletedFrame(t, raw) ==
    t = "responses" /\ IsFrame(t, raw) /\ FrameOf(t, raw).type = TypeCompleted

RECURSIVE Flatten(_)
Flatten(texts) == IF texts = <<>> THEN <<>> ELSE Head(texts) \o Flatten(Tail(texts))

\* the text of every output_text part of every message item, in order
MessageText(output) ==
    Flatten([ i \in 1..Len(output) |->
                IF output[i].type # "message" THEN <<>>
                ELSE Flatten([ j \in 1..Len(output[i].content) |->
                                 IF output[i].content[j].type = "output_text"
                                     THEN output[i].content[j].text ELSE <<>> ]) ])

\* the delta text of the lines consumed so far
DeltasSoFar == DeltaFragments(tool, SubSeq(response.lines, 1, pos))

\* index of the first response.completed line, Len + 1 when there is none
RECURSIVE FirstCompleted(_, _)
FirstCompleted(lines, i) ==
    IF i > Len(lines) \/ IsCompletedFrame("responses", lines[i]) THEN i
    ELSE FirstCompleted(lines, i + 1)

----------------------------------------------------------------------------
(* C20  Content source of a chat chunk *)

\* the text of a JSON value, '' when it is absent
TextOf(v) == IF v.kind = "str" THEN v.text ELSE <<>>

\* the text the claim takes from a chunk: the content of the first choice's
\* delta, and the content of its message when the delta is absent
ClaimedPiece(c0) ==
    IF c0.delta.kind = "dict" THEN TextOf(c0.delta.content)
    ELSE TextOf(c0.message.content)

\* the first choice of the chunk the chat aggregator is about to consume is
\* an object whose delta is an object with string (or no) content, or is absent
ConsumingChatChunk ==
    /\ Consuming /\ tool # "responses"
    /\ IsFrame(tool, NextLine)
    /\ FrameOf(tool, NextLine).choices # <<>>
    /\ LET c0 == FrameOf(tool, NextLine).choices[1] IN
          /\ c0.isdict
          /\ c0.delta.kind \in {"dict", "absent"}
          /\ c0.delta.content.kind \in {"str", "absent"}

\* C20: a parsed chat chunk appends choices[0].delta.content when the first
\* choice has a delta with content and, when that delta is absent, the first
\* choice's message.content; no other element of choices contributes text or
\* finish_reason.
C20_ChatContentSource ==
    [][ ConsumingChatChunk =>
          LET c0 == FrameOf(tool, NextLine).choices[1] IN
          /\ accumulated_text' = accumulated_text \o ClaimedPiece(c0)
          /\ finish_reason' = IF Truthy(c0.finish_reason) THEN c0.finish_reason
                               ELSE finish_reason
      ]_vars

----------------------------------------------------------------------------
(* C21  A recorded error does not fail the stream *)

\* an event of another type than response.failed whose nested response object
\* carries an error
RecordsError(t, raw) ==
    /\ t = "responses" /\ IsFrame(t, raw)
    /\ FrameOf(t, raw).type # TypeFailed
    /\ FrameOf(t, raw).response.kind = "dict"
    /\ FrameOf(t, raw).response.error.kind = "obj"

RECURSIVE WithoutRecorded(_, _)
WithoutRecorded(t, lines) ==
    IF lines = <<>> THEN <<>>
    ELSE (IF RecordsError(t, Head(lines)) THEN <<>> ELSE <<Head(lines)>>)
         \o WithoutRecorded(t, Tail(lines))

\* C21: in the responses aggregator an event that is no failure event and whose
\* nested response carries an error records the error and does not abort: the
\* next line is consumed next; and when no failure event follows, the
\* invocation ends with a success envelope whose content is that of the stream
\* without the error-carrying events.
C21_RecordedErrorDoesNotFail ==
    /\ [][ (Consuming /\ RecordsError(tool, NextLine)) =>
              /\ error_info' = FrameOf(tool, NextLine).response.error
              /\ pc' = "streaming"
              /\ pos' = pos + 1
              /\ emitted' = emitted
         ]_vars
    /\ []( ( /\ tool = "responses" /\ Received /\ pc = "done"
              /\ ResponseOk(response.status)
              /\ \E i \in 1..pos : RecordsError(tool, response.lines[i])
              /\ \A k \in 1..Len(response.lines) :
                    ~IsFailedFrame(tool, response.lines[k]) )
            => /\ Succeeded
               /\ emitted[1].body.data =
                     Outcome(tool, WithoutRecorded(tool, response.lines))[1].body.data )

----------------------------------------------------------------------------
(* C22  Append-only accumulation *)

IsPrefix(a, b) == Len(a) =< Len(b) /\ SubSeq(b, 1, Len(a)) = a

\* C22: in every streaming aggregator every step leaves the accumulated text a
\* prefix of the new accumulated text, and model, id, created and finish reason
\* never go from non-null to null.
C22_AppendOnly ==
    [][ (tool \in StreamingTools) =>
          /\ IsPrefix(accumulated_text, accumulated_text')
          /\ (model_id # Null => model_id' # Null)
          /\ (completion_id # Null => completion_id' # Null)
          /\ (created_ts # Null => created_ts' # Null)
          /\ (finish_reason # Null => finish_reason' # Null)
      ]_vars

\* two fragments have been appended and the metadata is set
C22_Witness ==
    /\ Streamed /\ pos >= 2
    /\ accumulated_text = FragA \o FragB
    /\ DeltaFragment(tool, response.lines[pos]) = FragB
    /\ model_id # Null /\ finish_reason # Null

----------------------------------------------------------------------------
(* C23  Non-data lines *)

RECURSIVE DataLinesOf(_)
DataLinesOf(lines) ==
    IF lines = <<>> THEN <<>>
    ELSE (IF IsDataLine(Head(lines)) THEN <<Head(lines)>> ELSE <<>>)
         \o DataLinesOf(Tail(lines))

\* C23: consuming a line that, decoded, is blank or does not begin with
\* 'data:' changes neither the accumulated text nor the finish reason nor a
\* metadata field and does not end the stream; the invocation yields what it
\* yields for the body without such lines.
C23_NonDataLinesIgnored ==
    /\ [][ (Consuming /\ ~IsDataLine(NextLine)) =>
              /\ UNCHANGED aggVars
              /\ pc' = "streaming"
              /\ emitted' = emitted
         ]_vars
    /\ []( (Received /\ ResponseOk(response.status) /\ pc = "done")
            => emitted = Outcome(tool, DataLinesOf(response.lines)) )

\* a blank line, a delta frame, then an 'event:' or comment line
C23_Witness ==
    /\ Streamed /\ Succeeded
    /\ Len(response.lines) = 3 /\ pos = 3
    /\ DecodeLine(response.lines[1]) = <<>>
    /\ DeltaFragment(tool, response.lines[2]) = FragA
    /\ DecodeLine(response.lines[3]) # <<>> /\ ~IsDataLine(response.lines[3])
    /\ SuccessContent = FragA

----------------------------------------------------------------------------
(* C24  Chat content normalization *)

ChatTools == {"chat", "completions"}

HasContent(msg) == msg.content.kind # "absent"

\* the outbound content the claim gives for a content, by runtime shape
ClaimedContent(c) ==
    IF c.kind \in {"str", "list"} THEN c
    ELSE IF c.kind = "dict" /\ c.text # <<>> THEN Content("parts", c.text, <<>>)
    ELSE IF c.kind = "dict" /\ c.alt # <<>> THEN Content("parts", c.alt, <<>>)
    ELSE IF c.kind = "dict" THEN Content("str", <<"json.dumps(content)">>, <<>>)
    ELSE Content("str", c.text, <<>>)

\* C24: the outbound messages of the chat tools are, in input order, one per
\* input message with content, each with the message's role (default 'user')
\* and the content normalized by its runtime shape: a string or a list as it
\* is, a mapping with a text (else content) field v as the one-part list
\* [{type:'text', text:v}], a mapping without one as its JSON serialization,
\* anything else as its stringification.
C24_ContentNormalization ==
    (tool \in ChatTools /\ Sent /\ params.messages # <<>>) =>
        LET input == SelectSeq(params.messages, HasContent) IN
        /\ Len(Body.messages) = Len(input)
        /\ \A j \in 1..Len(input) :
              /\ Body.messages[j].role =
                    (IF input[j].role = Null THEN "user" ELSE input[j].role)
              /\ Body.messages[j].content = ClaimedContent(input[j].content)

\* a mapping with only a content field, then a number
C24_Witness ==
    /\ tool \in ChatTools /\ Sent
    /\ Len(params.messages) = 2
    /\ params.messages[1].content = Content("dict", <<>>, <<"c">>)
    /\ params.messages[2].content.kind = "other"
    /\ Body.messages[1].content = Content("parts", <<"c">>, <<>>)
    /\ Body.messages[2].content = Content("str", <<"5">>, <<>>)

----------------------------------------------------------------------------
(* C25  URL sanitization of the responses tool *)

\* the message of the invocation carries an image or file URL
HasUrl ==
    /\ tool = "responses" /\ Len(params.messages) = 1
    /\ params.messages[1].content.kind \in {"image", "file"}

\* the URL the caller passed and the URL in the outbound request
GivenUrl == params.messages[1].content.text
SentUrl == Body.input.list[1].content.text

\* what the claim says of a sanitized value
IsSanitized(v) ==
    /\ v # <<>>
    /\ Head(v) # SP /\ v[Len(v)] # SP                     \* trimmed
    /\ ~(Head(v) = BackTick /\ v[Len(v)] = BackTick)      \* not wrapped
    /\ v[Len(v)] # BackSlash                               \* no trailing backslash
    /\ Head(v) = HttpsUrl                                  \* absolute http(s) URL with a host

\* C25: an image or file URL placed in the outbound request is trimmed,
\* unwrapped from backticks, without trailing backslashes and an absolute
\* http(s) URL with a host, and sanitizing it again leaves it unchanged; when
\* the cleaned value is no such URL the invocation emits one failure envelope
\* and sends no request.
C25_UrlSanitization ==
    HasUrl =>
        /\ Sent => /\ IsSanitized(SentUrl)
                   /\ sanitize_url(SentUrl) = [ok |-> TRUE, url |-> SentUrl]
        /\ (pc = "done" /\ ~Sent) =>
              /\ requests = <<>>
              /\ Len(emitted) = 1
              /\ emitted[1].kind = "json"
              /\ ~emitted[1].body.success

----------------------------------------------------------------------------
(* C26  Missing content in the image tool *)

\* the parts of a candidate that carry inline image data
CarriesImage(candidate) == \E k \in 1..Len(candidate) : candidate[k].kind = "image"

\* a 2xx JSON response without candidates, or whose first candidate has no
\* part with inline image data
MissingContent ==
    /\ tool = "banana" /\ response # NoResponse
    /\ Is2xx(response.status) /\ response.json.kind = "dict"
    /\ \/ response.json.candidates = <<>>
       \/ ~CarriesImage(response.json.candidates[1])

\* C26: a 2xx response of the image tool without candidates, or whose first
\* candidate has no part with inline image data, ends in exactly one failure
\* envelope and no binary artifact, also when another candidate has an image.
C26_MissingContent ==
    MissingContent =>
        /\ pc = "done"
        /\ Len(emitted) = 1
        /\ emitted[1].kind = "json"
        /\ ~emitted[1].body.success
        /\ emitted[1].body.error = NoImagesMsg

\* the first candidate has only text and the second one a valid image
C26_Witness ==
    /\ MissingContent /\ pc = "done"
    /\ Len(response.json.candidates) = 2
    /\ response.json.candidates[1] # <<>>
    /\ CarriesImage(response.json.candidates[2])
    /\ Len(emitted) = 1 /\ ~emitted[1].body.success

----------------------------------------------------------------------------
(* C27  One request, no retry *)

\* the requests sent to the generative-API endpoint (not the downloads of
\* reference images)
IsUpstream(r) == r.url # "reference image"
UpstreamRequests == SelectSeq(requests, IsUpstream)

\* C27: an invocation sends at most one request to its endpoint; once it is
\* sent, whatever happens next (network error, failed status, failure event,
\* parse failure), no request is added and the sent request is not changed.
C27_OneRequestNoRetry ==
    /\ [][ (pc # "start") => requests' = requests ]_vars
    /\ [](Len(UpstreamRequests) <= 1)

\* an invocation that sent its request and ended in a failure after the send
C27_Witness ==
    /\ pc = "done" /\ Len(UpstreamRequests) = 1
    /\ \E f \in failures : f.where \in {"http", "status", "parse", "stream"}

----------------------------------------------------------------------------
(* C28  Chat input validation *)

\* the caller's messages yield no message with content: absent, empty, or
\* every message's content empty
NoContentMessages ==
    \A k \in 1..Len(params.messages) :
        params.messages[k].isdict /\ ~HasContent(params.messages[k])

PromptMessage == [role |-> "user", content |-> Content("str", <<params.prompt>>, <<>>)]

\* C28: the chat and completions tools send a request only with a non-empty
\* messages array; when the caller's messages yield no message with content,
\* the prompt, if provided, is sent as the single user message, and without a
\* prompt the invocation fails with the 'messages or prompt required' envelope
\* and sends nothing.
C28_ChatInputValidation ==
    (tool \in ChatTools /\ pc # "start") =>
        /\ Sent => Body.messages # <<>>
        /\ (NoContentMessages /\ Truthy(params.prompt)) =>
              Sent /\ Body.messages = <<PromptMessage>>
        /\ (NoContentMessages /\ ~Truthy(params.prompt)) =>
              /\ requests = <<>>
              /\ Len(emitted) = 1
              /\ emitted[1].kind = "json"
              /\ ~emitted[1].body.success
              /\ emitted[1].body.error = NeedInputMsg

----------------------------------------------------------------------------
(* C29  Finish reason of the responses aggregator *)

\* a response.completed event is among the lines processed before the stream
\* ended ([DONE] or the end of the body)
CompletedProcessed ==
    \E k \in 1..Len(BeforeDone(response.lines)) :
        IsCompletedFrame(tool, response.lines[k])

\* C29: in the responses tool the finish reason is always null or 'stop'; once
\* 'stop' it stays 'stop'; and the success envelope carries 'stop' exactly when
\* a response.completed event was processed before the stream ended.
C29_FinishReason ==
    /\ []( tool = "responses" => finish_reason \in {Null, "stop"} )
    /\ [][ (tool = "responses" /\ finish_reason = "stop") => finish_reason' = "stop" ]_vars
    /\ []( (tool = "responses" /\ Received /\ Succeeded) =>
              /\ Envelope.data.finishReason \in {Null, "stop"}
              /\ Envelope.metadata.finishReason = Envelope.data.finishReason
              /\ (Envelope.data.finishReason = "stop" <=> CompletedProcessed) )

\* a success whose completed event was followed by a delta, and one whose
\* completed event came only after [DONE]
C29_Witness ==
    /\ tool = "responses" /\ Received /\ Succeeded
    /\ Envelope.data.finishReason = "stop"
    /\ Len(response.lines) >= 2
    /\ IsCompletedFrame(tool, response.lines[1])
    /\ IsFrame(tool, response.lines[2])
    /\ FrameOf(tool, response.lines[2]).type = TypeDelta

C29_WitnessNull ==
    /\ tool = "responses" /\ Received /\ Succeeded
    /\ Envelope.data.finishReason = Null
    /\ Len(response.lines) >= 2
    /\ IsDoneLine(response.lines[1])
    /\ IsCompletedFrame(tool, response.lines[2])

----------------------------------------------------------------------------
(* C30  Streaming flag and response path of the responses tool *)

\* the SSE aggregator is reading, or has read, the body of the response
AggregatorApplied == tool = "responses" /\ Received /\ ResponseOk(response.status)

\* the upstream's body carries output text
UpstreamHasText ==
    \E k \in 1..Len(response.lines) :
        \/ response.lines[k] = JsonDocument
        \/ DeltaFragment(tool, response.lines[k]) # <<>>
        \/ CarriesOtherText(tool, response.lines[k])

\* C30: the SSE aggregator is applied only to responses of requests sent with
\* stream = true; a request sent with stream = false has its 2xx JSON body
\* parsed directly, so a success envelope with empty content is produced only
\* when the upstream produced no output text.
C30_StreamFlagAgrees ==
    (tool = "responses" /\ Sent) =>
        /\ AggregatorApplied => Body.stream = PyTrue
        /\ (Body.stream = PyFalse /\ Received /\ Succeeded /\ SuccessContent = <<>>)
              => ~UpstreamHasText

====
